---------------------------- MODULE Spec2Model ----------------------------
(***************************************************************************)
(* A model of the sai-web private-messaging client.                        *)
(*                                                                         *)
(*   SpecGate     the shared-code gate (SecretCodeGate) and the Index page *)
(*   Spec         the conversation store of one ChatRoom view (profile p1) *)
(*                against the backend: the messages table behind its       *)
(*                row-level-security policies, the history, read-receipt   *)
(*                and insert requests in flight, the change feed, and the  *)
(*                ChatRoom views of the other profiles, whose requests     *)
(*                reach the backend at any moment                          *)
(*   SpecTyping   the typing indicator of that view: the 'typing'          *)
(*                broadcast handler and its 2 s timer, against a clock     *)
(*   SpecPresence the 'online-users' presence channel: three browser       *)
(*                sessions, the server's tracked set, and the messages     *)
(*                between them in both directions                          *)
(*                                                                         *)
(* Strings that the code inspects character by character (the alias, the   *)
(* access code) are sequences of one-character strings.                    *)
(***************************************************************************)
EXTENDS Integers, Sequences, FiniteSets, TLC

VARIABLES
    \* SecretCodeGate (useState hooks) and Index (useState hooks)
    code, name, error, isShaking, isAuthenticated, userName,
    \* the backend: the rows of public.messages in insertion order
    store,
    \* ChatRoom (useState hooks)
    selectedRecipient, messages, isLoading, toast,
    \* the 'private-messages' channel of the view, and the change events the
    \* backend has sent on it and the view has not handled yet
    chan, inbox,
    \* requests of the view in flight: history selects, read_at updates, the
    \* message insert
    fetches, marks, insert,
    \* history: how often a peer was selected, what the current subscription
    \* of the view has handled, how many backend requests have failed
    selects, observed, failures,
    \* the typing indicator: the peer the subscribed 'typing' handler closes
    \* over, the useState flag, the useRef timer handle, the timers pending
    typingPeer, isRecipientTyping, typingTimeoutRef, timers,
    \* the clock (ms), and when the handler last and next-to-last accepted a
    \* broadcast
    now, lastTypingAt, prevTypingAt,
    \* presence, per browser session: the state of its 'online-users' channel,
    \* the messages on their way to the server and to the session, the
    \* session's presenceState() and its onlineUsers (useState)
    status, up, down, presenceState, onlineUsers,
    \* presence, on the server: the sessions joined to the channel and those
    \* with a tracked presence
    members, tracked,
    \* history: mounts per session, failed joins, the profiles a session has
    \* shown online since it was mounted
    mounts, joinFailures, shown,
    \* ChatRoom (useState hooks): the 'Loading...' flag, the caller's profile
    \* and the directory, and the two requests of the mount effect
    loading, currentProfile, profiles, boot,
    \* the attachment sends of the view (image, voice), the isRecording flag,
    \* and the objects of the 'chat-media' bucket
    job, isRecording, bucket,
    \* the hidden file input of the composer (fileInputRef): the kind of file
    \* it holds, "" when empty
    fileInput,
    \* Auth (useState hooks; authLoading is its `loading`) and whether it
    \* has called navigate("/")
    mode, username, password, confirmPassword, authLoading, authToast,
    navigated,
    \* Auth against the auth backend: the request of handleSubmit, the
    \* session of this browser, the auth-state notifications not delivered
    \* yet, the getSession promises not resolved yet (each with the mode its
    \* effect run closed over), how many forms were submitted
    authReq, session, authEvents, sessionChecks, submits,
    \* the typing channels: the channel each profile's view is subscribed to
    \* (with the peer it has selected) and the last typing broadcast sent
    typingSubs, typingWire,
    \* the answer of the backend to the last select on public.messages: the
    \* account that asked and the ids of the rows it was given
    seen

gateVars == <<code, name, error, isShaking, isAuthenticated, userName>>

chatVars == <<store, selectedRecipient, messages, isLoading, toast,
              chan, inbox, fetches, marks, insert, selects, observed, failures>>

typingVars == <<typingPeer, isRecipientTyping, typingTimeoutRef, timers,
                now, lastTypingAt, prevTypingAt>>

presenceVars == <<status, up, down, presenceState, onlineUsers, members,
                  tracked, mounts, joinFailures, shown>>

composerVars == <<loading, currentProfile, profiles, boot, job, isRecording,
                  bucket, fileInput>>

authVars == <<mode, username, password, confirmPassword, authLoading,
              authToast, navigated, authReq, session, authEvents,
              sessionChecks, submits>>

channelVars == <<typingSubs, typingWire>>

vars == <<gateVars, chatVars, typingVars, presenceVars, composerVars,
          authVars, channelVars, seen>>

(***************************************************************************)
(* Bounds                                                                  *)
(***************************************************************************)
\* longest alias typed into the "Your Alias" input
MaxAliasLen == 2
\* rows ever inserted into public.messages
MaxMsgs == 2
\* peer selections made in the recipient Select
MaxSelects == 2
\* peer selections and rows inserted, together
MaxOps == 3
\* backend requests that fail
MaxFailures == 1
\* the clock advances by at most this much at a time (ms)
TickMs == 500
\* the clock stops here (ms)
MaxTime == 6000
\* times a browser session mounts ChatRoom
MaxMounts == 1
\* joins of the presence channel that fail
MaxJoinFailures == 1
\* submissions of the Auth form
MaxSubmits == 2

(***************************************************************************)
(* SecretCodeGate / Index                                                  *)
(***************************************************************************)
SECRET_CODE == <<"C", "I", "P", "H", "E", "R", "2", "0", "2", "4">>

\* String.prototype.toUpperCase on one character of the alphabet used here
UpperChar(ch) ==
    CASE ch = "c" -> "C"
      [] ch = "i" -> "I"
      [] ch = "p" -> "P"
      [] ch = "h" -> "H"
      [] ch = "e" -> "E"
      [] ch = "r" -> "R"
      [] ch = "a" -> "A"
      [] OTHER -> ch

ToUpperCase(s) == [i \in 1..Len(s) |-> UpperChar(s[i])]

IsSpace(ch) == ch = " "

\* String.prototype.trim: drops leading and trailing white space
RECURSIVE TrimLeft(_)
TrimLeft(s) ==
    IF s # <<>> /\ IsSpace(Head(s)) THEN TrimLeft(Tail(s)) ELSE s

RECURSIVE TrimRight(_)
TrimRight(s) ==
    IF s # <<>> /\ IsSpace(s[Len(s)])
    THEN TrimRight(SubSeq(s, 1, Len(s) - 1))
    ELSE s

Trim(s) == TrimRight(TrimLeft(s))

\* what the user can type into the alias input
AliasChars == {" ", "a", "A"}

RECURSIVE SeqsUpTo(_, _)
SeqsUpTo(S, n) ==
    IF n = 0 THEN {<<>>}
    ELSE LET shorter == SeqsUpTo(S, n - 1)
         IN  shorter \cup {Append(s, x) : s \in shorter, x \in S}

AliasInputs == SeqsUpTo(AliasChars, MaxAliasLen)

\* what the user can type into the access-code input: the code itself, the
\* code in other letter cases, the code with white space around it, wrong codes
CodeInputs ==
    { <<>>,
      SECRET_CODE,
      <<"c", "i", "p", "h", "e", "r", "2", "0", "2", "4">>,
      <<"C", "i", "p", "h", "e", "r", "2", "0", "2", "4">>,
      <<"C", "I", "P", "H", "E", "R", "2", "0", "2", "4", " ">>,
      <<"C", "I", "P", "H", "E", "R", "2", "0", "2", "5">>,
      <<"C", "I", "P", "H", "E", "R">> }

ERR_NONE == ""
ERR_ALIAS == "Enter your alias to proceed"
ERR_DENIED == "ACCESS DENIED - Invalid code"

GateMounted == ~isAuthenticated

\* <Input value={name} onChange=...>: setName(e.target.value); setError("")
HandleNameChange(s) ==
    /\ GateMounted
    /\ name' = s
    /\ error' = ERR_NONE
    /\ UNCHANGED <<code, isShaking, isAuthenticated, userName>>

\* <Input value={code} onChange=...>: setCode(e.target.value); setError("")
HandleCodeChange(s) ==
    /\ GateMounted
    /\ code' = s
    /\ error' = ERR_NONE
    /\ UNCHANGED <<name, isShaking, isAuthenticated, userName>>

\* Index.handleAccessGranted: setUserName(name); setIsAuthenticated(true)
HandleAccessGranted(n) ==
    /\ userName' = n
    /\ isAuthenticated' = TRUE

\* triggerShake: setIsShaking(true), cleared by a 500 ms timer
TriggerShake == isShaking' = TRUE

\* the comparison of handleSubmit, dropping toUpperCase
CodeAcceptedExact(c) == c = SECRET_CODE

\* code.toUpperCase() === SECRET_CODE
CodeAccepted(c) == ToUpperCase(c) = SECRET_CODE

\* !name.trim()
AliasMissing(n) == Trim(n) = <<>>

\* the argument of onAccessGranted, without the trim
GrantedIdentityRaw(n) == n

\* onAccessGranted(name.trim())
GrantedIdentity(n) == Trim(n)

\* SecretCodeGate.handleSubmit
HandleSubmit ==
    /\ GateMounted
    /\ IF AliasMissing(name)
       THEN /\ error' = ERR_ALIAS
            /\ TriggerShake
            /\ UNCHANGED <<isAuthenticated, userName>>
       ELSE IF CodeAccepted(code)
       THEN /\ HandleAccessGranted(GrantedIdentity(name))
            /\ UNCHANGED <<error, isShaking>>
       ELSE /\ error' = ERR_DENIED
            /\ TriggerShake
            /\ UNCHANGED <<isAuthenticated, userName>>
    /\ UNCHANGED <<code, name>>

\* the 500 ms timer of triggerShake fires (a no-op once the gate is unmounted)
ShakeTimeout ==
    /\ isShaking
    /\ isShaking' = FALSE
    /\ UNCHANGED <<code, name, error, isAuthenticated, userName>>

\* a handleLogout that leaves the alias in place
HandleLogoutKeepsAlias ==
    /\ isAuthenticated
    /\ isAuthenticated' = FALSE
    /\ userName' = userName
    /\ code' = <<>>
    /\ name' = <<>>
    /\ error' = ERR_NONE
    /\ isShaking' = FALSE

\* Index.handleLogout; the gate is mounted anew, its hooks re-initialised
HandleLogout ==
    /\ isAuthenticated
    /\ isAuthenticated' = FALSE
    /\ userName' = <<>>
    /\ code' = <<>>
    /\ name' = <<>>
    /\ error' = ERR_NONE
    /\ isShaking' = FALSE

GateInit ==
    /\ code = <<>>
    /\ name = <<>>
    /\ error = ERR_NONE
    /\ isShaking = FALSE
    /\ isAuthenticated = FALSE
    /\ userName = <<>>

(***************************************************************************)
(* Claims about the shared-code gate                                       *)
(***************************************************************************)
\* two strings equal up to the case of their ASCII letters
SameLetter(x, y) ==
    \/ x = y
    \/ \E p \in { <<"c", "C">>, <<"i", "I">>, <<"p", "P">>, <<"h", "H">>,
                  <<"e", "E">>, <<"r", "R">>, <<"a", "A">> } :
           {x, y} = {p[1], p[2]}

EqualIgnoringCase(s, t) ==
    /\ Len(s) = Len(t)
    /\ \A i \in 1..Len(s) : SameLetter(s[i], t[i])

HasNonSpace(s) == \E i \in 1..Len(s) : s[i] # " "

\* C1 as stated: every submission whose entered code matches the fixed code
\* is granted access, and every submission whose code does not match is
\* denied with a non-empty error message.
C1_AsStated ==
    [][HandleSubmit =>
         /\ (code = SECRET_CODE => isAuthenticated')
         /\ (code # SECRET_CODE => ~isAuthenticated' /\ error' # ERR_NONE)]_vars

\* C1 amended: a submission is granted access exactly when its alias has a
\* non-space character and its code equals the fixed code up to letter case;
\* every other submission leaves isAuthenticated false and shows a non-empty
\* error message.
C1_GateDecision ==
    [][HandleSubmit =>
         IF HasNonSpace(name) /\ EqualIgnoringCase(code, SECRET_CODE)
         THEN isAuthenticated'
         ELSE ~isAuthenticated' /\ error' # ERR_NONE]_vars

\* the fixed code entered with a blank alias has been submitted and refused
C1_Witness ==
    /\ code = SECRET_CODE
    /\ ~HasNonSpace(name)
    /\ error = ERR_ALIAS
    /\ ~isAuthenticated

\* C2 as stated: whenever the entered code is the fixed code, the submission
\* is granted whatever the alias, and the identity handed on is that alias.
C2_AsStated ==
    [][(HandleSubmit /\ code = SECRET_CODE) =>
         isAuthenticated' /\ userName' = name]_vars

\* C2 amended: whenever the entered code is the fixed code and the alias has
\* a non-space character, the submission is granted and the identity handed
\* on is the alias without its leading and trailing white space.
C2_AliasHandedOn ==
    [][(HandleSubmit /\ code = SECRET_CODE /\ HasNonSpace(name)) =>
         /\ isAuthenticated'
         /\ userName' # <<>>
         /\ ~IsSpace(userName'[1])
         /\ ~IsSpace(userName'[Len(userName')])
         /\ \E i, j \in 0..Len(name) :
               /\ i + Len(userName') + j = Len(name)
               /\ SubSeq(name, i + 1, i + Len(userName')) = userName'
               /\ \A k \in (1..i) \cup ((Len(name) - j + 1)..Len(name)) :
                     IsSpace(name[k])]_vars

\* an alias typed with white space around it has been accepted, trimmed
C2_Witness ==
    /\ isAuthenticated
    /\ code = SECRET_CODE
    /\ name = <<" ", "a">>
    /\ userName = <<"a">>

(***************************************************************************)
(* The backend: profiles, the messages table and its policies              *)
(***************************************************************************)
Profiles == {"p1", "p2", "p3"}

\* currentProfile.id of the view (fetchCurrentProfile: the profile of user.id)
Me == "p1"

\* the profiles whose ChatRoom views are the environment of the view
Peers == Profiles \ {Me}

\* profiles.user_id (UNIQUE): the account a profile belongs to
UserOf(p) == CASE p = "p1" -> "u1" [] p = "p2" -> "u2" [] OTHER -> "u3"

NoOne == "none"

\* read_at of an unread row. A read_at that is set holds what
\* new Date().toISOString() gave the view that asked for the update; the
\* model writes it as the profile of that view and the handler that asked
NULL == <<>>

\* policy "Anyone can view messages", which the private-messaging migration
\* drops
CanViewAnyone(u, m) == TRUE

\* policy "Users can view their own messages"
CanView(u, m) == u \in {UserOf(m.sender_id), UserOf(m.recipient_id)}

\* policy "Users can send messages"
CanInsert(u, m) == u = UserOf(m.sender_id)

\* policy "Users can mark messages as read"
CanUpdate(u, m) == u = UserOf(m.recipient_id)

Range(f) == {f[i] : i \in DOMAIN f}

\* .order('created_at', { ascending: true })
RECURSIVE OrderByCreatedAt(_)
OrderByCreatedAt(S) ==
    IF S = {} THEN <<>>
    ELSE LET first == CHOOSE m \in S : \A o \in S : m.created_at <= o.created_at
         IN  <<first>> \o OrderByCreatedAt(S \ {first})

\* the .or(and(...),and(...)) filter of fetchMessages, with one half dropped
PairFilterOneWay(m, me, peer) ==
    m.sender_id = me /\ m.recipient_id = peer

\* .or(`and(sender_id.eq.me,recipient_id.eq.peer),
\*      and(sender_id.eq.peer,recipient_id.eq.me)`)
PairFilter(m, me, peer) ==
    \/ (m.sender_id = me /\ m.recipient_id = peer)
    \/ (m.sender_id = peer /\ m.recipient_id = me)

\* the select of fetchMessages as the backend answers it for account u
HistoryQuery(u, me, peer) ==
    OrderByCreatedAt({m \in Range(store) : CanView(u, m) /\ PairFilter(m, me, peer)})

\* the change feed: the view, once joined, is sent the events of the rows
\* its account may see, in commit order
Publish(evs) ==
    IF chan = "joined"
    THEN inbox \o SelectSeq(evs, LAMBDA e : CanView(UserOf(Me), e.new))
    ELSE inbox

\* the bounds leave room for one more row
RoomForRow == Len(store) < MaxMsgs /\ selects + Len(store) < MaxOps

\* profiles.username of a profile
Username(p) == <<"username", p>>

\* the row an insert of a text message stores: id and created_at are the
\* backend's defaults, image_url, voice_url and read_at are absent
NewRow(from, to) ==
    [id |-> Len(store) + 1, sender_id |-> from, recipient_id |-> to,
     created_at |-> Len(store) + 1, read_at |-> NULL,
     content |-> "text", sender_name |-> Username(from),
     image_url |-> NULL, voice_url |-> NULL]

\* the filters of markMessagesAsRead without .is('read_at', null)
MarkTargetsAnyReadState(r) ==
    {i \in 1..Len(store) :
        /\ CanUpdate(UserOf(r.by), store[i])
        /\ IF r.kind = "bulk"
           THEN /\ store[i].sender_id = r.sender
                /\ store[i].recipient_id = r.by
           ELSE store[i].id = r.id}

\* the rows an update request of profile `by` changes: markMessagesAsRead
\* filters on the pair and on read_at IS NULL, markMessageAsRead on the id
\* alone; the update policy lets only the recipient's account through
MarkTargets(r) ==
    {i \in 1..Len(store) :
        /\ CanUpdate(UserOf(r.by), store[i])
        /\ IF r.kind = "bulk"
           THEN /\ store[i].sender_id = r.sender
                /\ store[i].recipient_id = r.by
                /\ store[i].read_at = NULL
           ELSE store[i].id = r.id}

RECURSIVE SetToSeq(_)
SetToSeq(S) ==
    IF S = {} THEN <<>>
    ELSE LET least == CHOOSE i \in S : \A j \in S : i <= j
         IN  <<least>> \o SetToSeq(S \ {least})

\* an update that writes the whole row anew, with an empty content
MarkedWholeRow(r) ==
    [i \in 1..Len(store) |->
        IF i \in MarkTargets(r)
        THEN [store[i] EXCEPT !.read_at = r.at, !.content = ""]
        ELSE store[i]]

\* the table after update request r
Marked(r) ==
    [i \in 1..Len(store) |->
        IF i \in MarkTargets(r) THEN [store[i] EXCEPT !.read_at = r.at]
        ELSE store[i]]

\* the UPDATE events of update request r, one per row changed
MarkEvents(r) ==
    LET order == SetToSeq(MarkTargets(r))
    IN  [k \in 1..Len(order) |-> [type |-> "UPDATE", new |-> Marked(r)[order[k]]]]

\* the request of markMessagesAsRead by profile `by` with `peer` selected
BulkMark(by, peer) ==
    [kind |-> "bulk", by |-> by, sender |-> peer, id |-> 0,
     at |-> <<by, "markMessagesAsRead">>]

\* the request of markMessageAsRead(id) by profile `by`
SingleMark(by, id) ==
    [kind |-> "single", by |-> by, sender |-> NoOne, id |-> id,
     at |-> <<by, "markMessageAsRead">>]

(***************************************************************************)
(* ChatRoom: the conversation effect and its handlers                      *)
(***************************************************************************)
TOAST_NONE == ""
TOAST_LOAD == "Failed to load messages"
TOAST_SEND == "Failed to send message"

\* the select of fetchProfiles without .neq('user_id', user.id)
DirectoryOfAll == Profiles

\* the directory of the view: fetchProfiles, .neq('user_id', user.id)
Directory == {p \in Profiles : UserOf(p) # UserOf(Me)}

\* the user picks a peer in the recipient Select; the effect on
\* [currentProfile, selectedRecipient] cleans up the previous channel and
\* runs: fetchMessages(), markMessagesAsRead(), subscribe
SelectRecipient(p) ==
    /\ selects < MaxSelects
    /\ selects + Len(store) < MaxOps
    /\ p \in Directory
    /\ p # selectedRecipient
    /\ selectedRecipient' = p
    /\ chan' = "joining"
    /\ inbox' = <<>>
    /\ fetches' = fetches \cup
          {[peer |-> p, phase |-> "sent", data |-> <<>>, no |-> selects + 1]}
    /\ marks' = marks \cup {BulkMark(Me, p)}
    /\ selects' = selects + 1
    /\ observed' = {}
    /\ UNCHANGED <<store, messages, isLoading, toast, insert, failures>>

\* the 'private-messages' subscription reports SUBSCRIBED
ChannelJoined ==
    /\ chan = "joining"
    /\ chan' = "joined"
    /\ UNCHANGED <<store, selectedRecipient, messages, isLoading, toast,
                   inbox, fetches, marks, insert, selects, observed, failures>>

\* the backend answers the select of fetchMessages: the rows, or an error
FetchExecute(f, ok) ==
    /\ f \in fetches
    /\ f.phase = "sent"
    /\ ok \/ failures < MaxFailures
    /\ failures' = IF ok THEN failures ELSE failures + 1
    /\ fetches' = (fetches \ {f}) \cup
          {IF ok
           THEN [f EXCEPT !.phase = "ok",
                          !.data = HistoryQuery(UserOf(Me), Me, f.peer)]
           ELSE [f EXCEPT !.phase = "error"]}
    /\ UNCHANGED <<store, selectedRecipient, messages, isLoading, toast,
                   chan, inbox, marks, insert, selects, observed>>

\* fetchMessages continues after its await: toast and return on an error,
\* setMessages(data || []) otherwise
FetchReturn(f) ==
    /\ f \in fetches
    /\ f.phase # "sent"
    /\ fetches' = fetches \ {f}
    /\ IF f.phase = "error"
       THEN /\ toast' = TOAST_LOAD
            /\ UNCHANGED messages
       ELSE /\ messages' = f.data
            /\ UNCHANGED toast
    /\ UNCHANGED <<store, selectedRecipient, isLoading, chan, inbox,
                   marks, insert, selects, observed, failures>>

\* handleSendMessage up to its await: setIsLoading(true) and the insert
\* request; the composer is disabled while isLoading
HandleSendMessage ==
    /\ selectedRecipient # NoOne
    /\ ~isLoading
    /\ RoomForRow
    /\ isLoading' = TRUE
    /\ insert' = [phase |-> "sent", recipient |-> selectedRecipient]
    /\ UNCHANGED <<store, selectedRecipient, messages, toast, chan,
                   inbox, fetches, marks, selects, observed, failures>>

\* the backend executes the insert (or fails it) and publishes the INSERT event
InsertExecute(ok) ==
    /\ insert.phase = "sent"
    /\ ok \/ failures < MaxFailures
    /\ failures' = IF ok THEN failures ELSE failures + 1
    /\ LET row == NewRow(Me, insert.recipient)
       IN  IF ok /\ RoomForRow /\ CanInsert(UserOf(Me), row)
           THEN /\ store' = Append(store, row)
                /\ inbox' = Publish(<<[type |-> "INSERT", new |-> row]>>)
                /\ insert' = [insert EXCEPT !.phase = "ok"]
           ELSE /\ insert' = [insert EXCEPT !.phase = "error"]
                /\ UNCHANGED <<store, inbox>>
    /\ UNCHANGED <<selectedRecipient, messages, isLoading, toast, chan,
                   fetches, marks, selects, observed>>

\* handleSendMessage sending its insert again when it failed
InsertReturnRetry ==
    /\ insert.phase \in {"ok", "error"}
    /\ toast' = IF insert.phase = "error" THEN TOAST_SEND ELSE toast
    /\ isLoading' = (insert.phase = "error")
    /\ insert' = IF insert.phase = "error"
                 THEN [insert EXCEPT !.phase = "sent"]
                 ELSE [phase |-> "idle", recipient |-> NoOne]
    /\ UNCHANGED <<store, selectedRecipient, messages, chan, inbox,
                   fetches, marks, selects, observed, failures>>

\* handleSendMessage continues after its await: toast on an error,
\* setIsLoading(false)
InsertReturn ==
    /\ insert.phase \in {"ok", "error"}
    /\ toast' = IF insert.phase = "error" THEN TOAST_SEND ELSE toast
    /\ isLoading' = FALSE
    /\ insert' = [phase |-> "idle", recipient |-> NoOne]
    /\ UNCHANGED <<store, selectedRecipient, messages, chan, inbox,
                   fetches, marks, selects, observed, failures>>

\* the filter of the INSERT handler, without its second half
InsertMatchesOutboundOnly(m) ==
    m.sender_id = Me /\ m.recipient_id = selectedRecipient

\* the filter of the INSERT handler
InsertMatches(m) ==
    \/ (m.sender_id = Me /\ m.recipient_id = selectedRecipient)
    \/ (m.sender_id = selectedRecipient /\ m.recipient_id = Me)

\* prev.map(msg => msg.id === updatedMsg.id ? updatedMsg : msg)
PatchById(list, u) ==
    [i \in 1..Len(list) |-> IF list[i].id = u.id THEN u ELSE list[i]]

\* the INSERT handler asking for a read_at update of every row it appends
OnInsertMarkAll(m) ==
    IF InsertMatches(m)
    THEN /\ messages' = Append(messages, m)
         /\ observed' = observed \cup {<<"appended", m.id>>}
         /\ marks' = marks \cup {SingleMark(Me, m.id)}
    ELSE /\ observed' = observed \cup {<<"ignored", m.id>>}
         /\ UNCHANGED <<messages, marks>>

\* the 'postgres_changes' INSERT handler
OnInsert(m) ==
    IF InsertMatches(m)
    THEN /\ messages' = Append(messages, m)
         /\ observed' = observed \cup {<<"appended", m.id>>}
         /\ IF m.sender_id = selectedRecipient
            THEN marks' = marks \cup {SingleMark(Me, m.id)}
            ELSE UNCHANGED marks
    ELSE /\ observed' = observed \cup {<<"ignored", m.id>>}
         /\ UNCHANGED <<messages, marks>>

\* the 'postgres_changes' UPDATE handler
OnUpdate(u) ==
    /\ messages' = PatchById(messages, u)
    /\ observed' = observed \cup
          {IF \E i \in 1..Len(messages) : messages[i].id = u.id
           THEN <<"patched", u.id>>
           ELSE <<"unmatched", u.id>>}
    /\ UNCHANGED marks

\* the view handles the next change event of its channel
HandleEvent ==
    /\ inbox # <<>>
    /\ inbox' = Tail(inbox)
    /\ IF Head(inbox).type = "INSERT"
       THEN OnInsert(Head(inbox).new)
       ELSE OnUpdate(Head(inbox).new)
    /\ UNCHANGED <<store, selectedRecipient, isLoading, toast, chan, fetches,
                   insert, selects, failures>>

\* the backend executes a read_at update of the view and publishes the
\* UPDATE events
MarkExecute(r) ==
    /\ r \in marks
    /\ marks' = marks \ {r}
    /\ store' = Marked(r)
    /\ inbox' = Publish(MarkEvents(r))
    /\ UNCHANGED <<selectedRecipient, messages, isLoading, toast, chan,
                   fetches, insert, selects, observed, failures>>

\* a read_at update of the view fails; its result is never looked at
MarkFail(r) ==
    /\ r \in marks
    /\ failures < MaxFailures
    /\ failures' = failures + 1
    /\ marks' = marks \ {r}
    /\ UNCHANGED <<store, selectedRecipient, messages, isLoading, toast,
                   chan, inbox, fetches, insert, selects, observed>>

(***************************************************************************)
(* The ChatRoom views of the other profiles, seen from the backend         *)
(***************************************************************************)
\* handleSendMessage of peer p with q selected: its insert is executed
PeerSend(p, q) ==
    /\ p \in Peers
    /\ q \in Profiles \ {p}
    /\ RoomForRow
    /\ CanInsert(UserOf(p), NewRow(p, q))
    /\ store' = Append(store, NewRow(p, q))
    /\ inbox' = Publish(<<[type |-> "INSERT", new |-> NewRow(p, q)]>>)
    /\ UNCHANGED <<selectedRecipient, messages, isLoading, toast, chan,
                   fetches, marks, insert, selects, observed, failures>>

\* the rows of request r that the view shows unread while it has the
\* conversation with their recipient open and is joined to the change feed
OwedBy(r) ==
    {<<"owed", i>> : i \in
        {j \in MarkTargets(r) :
            /\ store[j].sender_id = Me
            /\ store[j].recipient_id = selectedRecipient
            /\ chan = "joined"
            /\ \E k \in 1..Len(messages) :
                  messages[k].id = j /\ messages[k].read_at = NULL}}

\* a read_at update of peer p is executed: markMessagesAsRead of the effect
\* it runs on opening the conversation with q (sender q, unread), or
\* markMessageAsRead(id) of its INSERT handler
PeerMark(r) ==
    /\ r.by \in Peers
    /\ MarkTargets(r) # {}
    /\ store' = Marked(r)
    /\ inbox' = Publish(MarkEvents(r))
    /\ observed' = observed \cup OwedBy(r)
    /\ UNCHANGED <<selectedRecipient, messages, isLoading, toast, chan,
                   fetches, marks, insert, selects, failures>>

PeerOpensConversation(p, q) ==
    /\ q \in Profiles \ {p}
    /\ PeerMark(BulkMark(p, q))

PeerReceivesInsert(p, i) ==
    /\ i \in 1..Len(store)
    /\ store[i].recipient_id = p
    /\ store[i].read_at # <<p, "markMessageAsRead">>
    /\ PeerMark(SingleMark(p, i))

ChatInit ==
    /\ store = <<>>
    /\ selectedRecipient = NoOne
    /\ messages = <<>>
    /\ isLoading = FALSE
    /\ toast = TOAST_NONE
    /\ chan = "closed"
    /\ inbox = <<>>
    /\ fetches = {}
    /\ marks = {}
    /\ insert = [phase |-> "idle", recipient |-> NoOne]
    /\ selects = 0
    /\ observed = {}
    /\ failures = 0

(***************************************************************************)
(* ChatRoom: the typing indicator                                          *)
(***************************************************************************)
\* setTimeout(() => setIsRecipientTyping(false), 2000)
TYPING_DECAY_MS == 2000

\* typingTimeoutRef.current before the first setTimeout
NO_TIMER == -1

\* a handler that leaves the pending timer running
ClearTimeoutNoOp(pending, handle) == pending

\* clearTimeout(typingTimeoutRef.current); a timer is known by its deadline
ClearTimeout(pending, handle) == pending \ {handle}

Earliest(S) == CHOOSE x \in S : \A y \in S : x <= y

\* the conversation effect runs for peer p: the typing channel of the peer
\* selected before is removed and one for p is subscribed, whose handler
\* closes over p. The cleanup clears neither the timer nor the indicator.
TypingSubscribe(p) ==
    /\ p \in Peers
    /\ p # typingPeer
    /\ typingPeer' = p
    /\ UNCHANGED <<isRecipientTyping, typingTimeoutRef, timers, now,
                   lastTypingAt, prevTypingAt>>

\* the 'typing' broadcast handler, for a broadcast whose payload.user_id is u
OnTyping(u) ==
    /\ typingPeer # NoOne
    /\ IF u = typingPeer
       THEN /\ isRecipientTyping' = TRUE
            /\ timers' =
                 (IF typingTimeoutRef # NO_TIMER
                  THEN ClearTimeout(timers, typingTimeoutRef)
                  ELSE timers) \cup {now + TYPING_DECAY_MS}
            /\ typingTimeoutRef' = now + TYPING_DECAY_MS
            /\ prevTypingAt' = lastTypingAt
            /\ lastTypingAt' = now
       ELSE UNCHANGED <<isRecipientTyping, typingTimeoutRef, timers,
                        lastTypingAt, prevTypingAt>>
    /\ UNCHANGED <<typingPeer, now>>

\* a timer set by the handler comes due: setIsRecipientTyping(false)
TypingTimeout(d) ==
    /\ d \in timers
    /\ d <= now
    /\ timers' = timers \ {d}
    /\ isRecipientTyping' = FALSE
    /\ UNCHANGED <<typingPeer, typingTimeoutRef, now, lastTypingAt,
                   prevTypingAt>>

\* time passes, up to the next timer that comes due
Tick ==
    /\ now < MaxTime
    /\ \A d \in timers : d > now
    /\ now' = Earliest({now + TickMs, MaxTime} \cup timers)
    /\ UNCHANGED <<typingPeer, isRecipientTyping, typingTimeoutRef, timers,
                   lastTypingAt, prevTypingAt>>

TypingInit ==
    /\ typingPeer = NoOne
    /\ isRecipientTyping = FALSE
    /\ typingTimeoutRef = NO_TIMER
    /\ timers = {}
    /\ now = 0
    /\ lastTypingAt = NO_TIMER
    /\ prevTypingAt = NO_TIMER

(***************************************************************************)
(* ChatRoom: presence on the 'online-users' channel                        *)
(***************************************************************************)
\* browser sessions running ChatRoom; s2 and s3 are signed in to one profile
Clients == {"s1", "s2", "s3"}

\* currentProfile.id of a session
ProfileOf(c) == IF c = "s1" THEN "p1" ELSE "p2"

\* the presence keys of a presence state, taken for profile ids
OnlineFromKeys(state) == state

\* the 'sync' handler: the profile_id of every presence in presenceState()
OnlineFromState(state) == {ProfileOf(k) : k \in state}

\* if (status === 'SUBSCRIBED')
MayTrack(s) == s = "SUBSCRIBED"

ChannelOpen(c) == status[c] \in {"joining", "SUBSCRIBED", "CHANNEL_ERROR"}

SendDown(to, msg) ==
    [c \in Clients |-> IF c \in to THEN Append(down[c], msg) ELSE down[c]]

\* the presence effect runs in a newly mounted ChatRoom:
\* supabase.channel('online-users').on('presence', ...).subscribe(...)
Mount(c) ==
    /\ status[c] \in {"idle", "CLOSED"}
    /\ mounts[c] < MaxMounts
    /\ up[c] = <<>>
    /\ down[c] = <<>>
    /\ mounts' = [mounts EXCEPT ![c] = @ + 1]
    /\ status' = [status EXCEPT ![c] = "joining"]
    /\ up' = [up EXCEPT ![c] = <<"join">>]
    /\ presenceState' = [presenceState EXCEPT ![c] = {}]
    /\ onlineUsers' = [onlineUsers EXCEPT ![c] = {}]
    /\ shown' = [shown EXCEPT ![c] = {}]
    /\ UNCHANGED <<down, members, tracked, joinFailures>>

\* the cleanup of the presence effect: supabase.removeChannel(presenceChannel)
Unmount(c) ==
    /\ ChannelOpen(c)
    /\ status' = [status EXCEPT ![c] = "CLOSED"]
    /\ up' = [up EXCEPT ![c] = Append(@, "leave")]
    /\ UNCHANGED <<down, members, tracked, presenceState, onlineUsers,
                   mounts, joinFailures, shown>>

\* the connection of a session is lost (tab closed, network gone) and the
\* server drops the session
Disconnect(c) ==
    /\ ChannelOpen(c)
    /\ status' = [status EXCEPT ![c] = "CLOSED"]
    /\ up' = [up EXCEPT ![c] = <<>>]
    /\ members' = members \ {c}
    /\ tracked' = tracked \ {c}
    /\ down' = [d \in Clients |->
                  IF d = c THEN <<>>
                  ELSE IF c \in tracked /\ d \in members
                  THEN Append(down[d],
                              [type |-> "diff", joins |-> {}, leaves |-> {c}])
                  ELSE down[d]]
    /\ UNCHANGED <<presenceState, onlineUsers, mounts, joinFailures, shown>>

\* the server handles the join sent by subscribe(): it replies, and on
\* success pushes the presence state of the channel
ServerJoin(c, ok) ==
    /\ up[c] # <<>>
    /\ Head(up[c]) = "join"
    /\ up' = [up EXCEPT ![c] = Tail(@)]
    /\ IF ok
       THEN /\ members' = members \cup {c}
            /\ down' = [down EXCEPT ![c] =
                          @ \o <<[type |-> "ok"],
                                 [type |-> "state", keys |-> tracked]>>]
            /\ UNCHANGED joinFailures
       ELSE /\ joinFailures < MaxJoinFailures
            /\ joinFailures' = joinFailures + 1
            /\ down' = [down EXCEPT ![c] = Append(@, [type |-> "error"])]
            /\ UNCHANGED members
    /\ UNCHANGED <<status, tracked, presenceState, onlineUsers, mounts, shown>>

\* the server handles presenceChannel.track({ profile_id })
ServerTrack(c) ==
    /\ up[c] # <<>>
    /\ Head(up[c]) = "track"
    /\ up' = [up EXCEPT ![c] = Tail(@)]
    /\ IF c \in members
       THEN /\ tracked' = tracked \cup {c}
            /\ down' = SendDown(members,
                          [type |-> "diff", joins |-> {c}, leaves |-> {}])
       ELSE UNCHANGED <<tracked, down>>
    /\ UNCHANGED <<status, members, presenceState, onlineUsers, mounts,
                   joinFailures, shown>>

\* the server handles the leave sent by removeChannel
ServerLeave(c) ==
    /\ up[c] # <<>>
    /\ Head(up[c]) = "leave"
    /\ up' = [up EXCEPT ![c] = Tail(@)]
    /\ members' = members \ {c}
    /\ tracked' = tracked \ {c}
    /\ down' = IF c \in tracked
               THEN SendDown(members \ {c},
                       [type |-> "diff", joins |-> {}, leaves |-> {c}])
               ELSE down
    /\ UNCHANGED <<status, presenceState, onlineUsers, mounts, joinFailures,
                   shown>>

\* the session handles the next message of the server: the subscribe
\* callback on a reply, the 'sync' handler on a presence state or diff; a
\* removed channel drops what still arrives
ClientReceive(c) ==
    /\ down[c] # <<>>
    /\ down' = [down EXCEPT ![c] = Tail(@)]
    /\ LET m == Head(down[c])
           synced == IF m.type = "state" THEN m.keys
                     ELSE (presenceState[c] \cup m.joins) \ m.leaves
       IN  IF ~ChannelOpen(c)
           THEN UNCHANGED <<status, up, presenceState, onlineUsers, shown>>
           ELSE IF m.type \in {"ok", "error"}
           THEN LET s == IF m.type = "ok" THEN "SUBSCRIBED"
                         ELSE "CHANNEL_ERROR"
                IN  /\ status' = [status EXCEPT ![c] = s]
                    /\ up' = [up EXCEPT ![c] =
                                IF MayTrack(s) THEN Append(@, "track") ELSE @]
                    /\ UNCHANGED <<presenceState, onlineUsers, shown>>
           ELSE /\ presenceState' = [presenceState EXCEPT ![c] = synced]
                /\ onlineUsers' =
                     [onlineUsers EXCEPT ![c] = OnlineFromState(synced)]
                /\ shown' = [shown EXCEPT ![c] = @ \cup OnlineFromState(synced)]
                /\ UNCHANGED <<status, up>>
    /\ UNCHANGED <<members, tracked, mounts, joinFailures>>

PresenceInit ==
    /\ status = [c \in Clients |-> "idle"]
    /\ up = [c \in Clients |-> <<>>]
    /\ down = [c \in Clients |-> <<>>]
    /\ members = {}
    /\ tracked = {}
    /\ presenceState = [c \in Clients |-> {}]
    /\ onlineUsers = [c \in Clients |-> {}]
    /\ mounts = [c \in Clients |-> 0]
    /\ joinFailures = 0
    /\ shown = [c \in Clients |-> {}]

(***************************************************************************)
(* ChatRoom: the mount effect, the composer and the attachment sends       *)
(***************************************************************************)
TOAST_PROFILE == "Failed to load profile"
TOAST_USERS == "Failed to load users"
TOAST_INVALID == "Invalid file"
TOAST_UPLOAD == "Upload failed"
TOAST_IMAGE == "Failed to send image"
TOAST_VOICE == "Failed to send voice"
TOAST_MIC == "Microphone access denied"

Kinds == {"image", "voice"}

IdleJob == [phase |-> "idle", profile |-> NoOne, recipient |-> NoOne,
            url |-> NULL]

\* `${user.id}/${Date.now()}.${fileExt}`: a name not used before
ObjectName == <<UserOf(Me), Cardinality(bucket) + 1>>

\* getPublicUrl(fileName).data.publicUrl
PublicUrl(n) == <<"chat-media", n>>

\* an attachment insert that reads the peer selected when it is sent
MediaRowToSelected(from, to, k, url) ==
    [NewRow(from, selectedRecipient) EXCEPT
        !.content = "",
        !.image_url = IF k = "image" THEN url ELSE NULL,
        !.voice_url = IF k = "voice" THEN url ELSE NULL]

\* the row an image or voice insert stores
MediaRow(from, to, k, url) ==
    [NewRow(from, to) EXCEPT
        !.content = "",
        !.image_url = IF k = "image" THEN url ELSE NULL,
        !.voice_url = IF k = "voice" THEN url ELSE NULL]

\* {selectedRecipient && (<form ...>)}, past the 'Loading...' screen
ComposerShown == ~loading /\ selectedRecipient # NoOne

\* the backend answers the select of fetchCurrentProfile
ProfileExecute(ok) ==
    /\ boot.profile = "sent"
    /\ ok \/ failures < MaxFailures
    /\ failures' = IF ok THEN failures ELSE failures + 1
    /\ boot' = [boot EXCEPT !.profile = IF ok THEN "ok" ELSE "error"]
    /\ UNCHANGED <<store, selectedRecipient, messages, isLoading, toast, chan,
                   inbox, fetches, marks, insert, selects, observed>>
    /\ UNCHANGED <<loading, currentProfile, profiles, job, isRecording, bucket,
                   fileInput>>

\* fetchCurrentProfile continues after its await: toast and return on an
\* error, setCurrentProfile(data) otherwise; with a peer already selected the
\* effect on [currentProfile, selectedRecipient] runs
ProfileReturn ==
    /\ boot.profile \in {"ok", "error"}
    /\ boot' = [boot EXCEPT !.profile = "done"]
    /\ IF boot.profile = "error"
       THEN /\ toast' = TOAST_PROFILE
            /\ UNCHANGED <<currentProfile, chan, inbox, fetches, marks,
                           selects, observed>>
       ELSE /\ currentProfile' = Me
            /\ UNCHANGED toast
            /\ IF selectedRecipient # NoOne
               THEN /\ chan' = "joining"
                    /\ inbox' = <<>>
                    /\ fetches' = fetches \cup
                          {[peer |-> selectedRecipient, phase |-> "sent",
                            data |-> <<>>, no |-> selects + 1]}
                    /\ marks' = marks \cup {BulkMark(Me, selectedRecipient)}
                    /\ selects' = selects + 1
                    /\ observed' = {}
               ELSE UNCHANGED <<chan, inbox, fetches, marks, selects, observed>>
    /\ UNCHANGED <<store, selectedRecipient, messages, isLoading, insert,
                   failures>>
    /\ UNCHANGED <<loading, profiles, job, isRecording, bucket,
                   fileInput>>

\* the backend answers the select of fetchProfiles
ListExecute(ok) ==
    /\ boot.list = "sent"
    /\ ok \/ failures < MaxFailures
    /\ failures' = IF ok THEN failures ELSE failures + 1
    /\ boot' = [boot EXCEPT !.list = IF ok THEN "ok" ELSE "error"]
    /\ UNCHANGED <<store, selectedRecipient, messages, isLoading, toast, chan,
                   inbox, fetches, marks, insert, selects, observed>>
    /\ UNCHANGED <<loading, currentProfile, profiles, job, isRecording, bucket,
                   fileInput>>

\* fetchProfiles continues after its await: toast and return on an error,
\* setProfiles(data || []) and setLoading(false) otherwise
ListReturn ==
    /\ boot.list \in {"ok", "error"}
    /\ boot' = [boot EXCEPT !.list = "done"]
    /\ IF boot.list = "error"
       THEN /\ toast' = TOAST_USERS
            /\ UNCHANGED <<profiles, loading>>
       ELSE /\ profiles' = Directory
            /\ loading' = FALSE
            /\ UNCHANGED toast
    /\ UNCHANGED <<store, selectedRecipient, messages, isLoading, chan, inbox,
                   fetches, marks, insert, selects, observed, failures>>
    /\ UNCHANGED <<currentProfile, job, isRecording, bucket,
                   fileInput>>

\* the user picks a peer in the recipient Select, which lists `profiles`;
\* without a current profile the conversation effect does nothing
PickRecipient(p) ==
    /\ ~loading
    /\ p \in profiles
    /\ IF currentProfile # NoOne
       THEN SelectRecipient(p)
       ELSE /\ p # selectedRecipient
            /\ selectedRecipient' = p
            /\ UNCHANGED <<store, messages, isLoading, toast, chan, inbox,
                           fetches, marks, insert, selects, observed, failures>>
    /\ UNCHANGED composerVars

\* the form is submitted: handleSendMessage, which returns at once without
\* a current profile; one text insert is followed at a time
SubmitText ==
    /\ ComposerShown
    /\ ~isRecording
    /\ currentProfile # NoOne
    /\ insert.phase = "idle"
    /\ HandleSendMessage
    /\ UNCHANGED composerVars

\* the user picks a file with the image button (onChange fires when the
\* input's file changes): handleImageUpload up to its first await, which
\* returns at once without a current profile
ChooseImage(isImage) ==
    /\ ComposerShown
    /\ ~isLoading
    /\ job["image"].phase = "idle"
    /\ RoomForRow
    /\ fileInput # (IF isImage THEN "image" ELSE "other")
    /\ fileInput' = IF isImage THEN "image" ELSE "other"
    /\ IF currentProfile = NoOne
       THEN UNCHANGED <<isLoading, job, toast>>
       ELSE IF isImage
       THEN /\ isLoading' = TRUE
            /\ job' = [job EXCEPT !["image"] =
                         [phase |-> "uploading", profile |-> currentProfile,
                          recipient |-> selectedRecipient, url |-> NULL]]
            /\ UNCHANGED toast
       ELSE /\ toast' = TOAST_INVALID
            /\ UNCHANGED <<isLoading, job>>
    /\ UNCHANGED <<store, selectedRecipient, messages, chan, inbox, fetches,
                   marks, insert, selects, observed, failures>>
    /\ UNCHANGED <<loading, currentProfile, profiles, boot, isRecording,
                   bucket>>

\* the voice button while not recording: startRecording; its onstop handler
\* closes over the currentProfile and selectedRecipient of this render
StartRecording(granted) ==
    /\ ComposerShown
    /\ ~isRecording
    /\ ~isLoading
    /\ job["voice"].phase = "idle"
    /\ RoomForRow
    /\ IF granted
       THEN /\ isRecording' = TRUE
            /\ job' = [job EXCEPT !["voice"] =
                         [phase |-> "recording", profile |-> currentProfile,
                          recipient |-> selectedRecipient, url |-> NULL]]
            /\ UNCHANGED toast
       ELSE /\ toast' = TOAST_MIC
            /\ UNCHANGED <<isRecording, job>>
    /\ UNCHANGED <<store, selectedRecipient, messages, isLoading, chan, inbox,
                   fetches, marks, insert, selects, observed, failures>>
    /\ UNCHANGED <<loading, currentProfile, profiles, boot, bucket,
                   fileInput>>

\* the voice button while recording: stopRecording
StopRecording ==
    /\ ComposerShown
    /\ isRecording
    /\ job["voice"].phase = "recording"
    /\ isRecording' = FALSE
    /\ job' = [job EXCEPT !["voice"].phase = "stopped"]
    /\ UNCHANGED chatVars
    /\ UNCHANGED <<loading, currentProfile, profiles, boot, bucket,
                   fileInput>>

\* mediaRecorder.onstop up to its first await
OnStop ==
    /\ job["voice"].phase = "stopped"
    /\ IF job["voice"].profile = NoOne \/ job["voice"].recipient = NoOne
       THEN /\ job' = [job EXCEPT !["voice"] = IdleJob]
            /\ UNCHANGED isLoading
       ELSE /\ isLoading' = TRUE
            /\ job' = [job EXCEPT !["voice"].phase = "uploading"]
    /\ UNCHANGED <<store, selectedRecipient, messages, toast, chan, inbox,
                   fetches, marks, insert, selects, observed, failures>>
    /\ UNCHANGED <<loading, currentProfile, profiles, boot, isRecording, bucket,
                   fileInput>>

\* the storage backend answers the upload of uploadFile
UploadExecute(k, ok) ==
    /\ job[k].phase = "uploading"
    /\ ok \/ failures < MaxFailures
    /\ failures' = IF ok THEN failures ELSE failures + 1
    /\ IF ok
       THEN /\ bucket' = bucket \cup {ObjectName}
            /\ job' = [job EXCEPT ![k].phase = "uploaded",
                                  ![k].url = PublicUrl(ObjectName)]
       ELSE /\ job' = [job EXCEPT ![k].phase = "uploadFailed"]
            /\ UNCHANGED bucket
    /\ UNCHANGED <<store, selectedRecipient, messages, isLoading, toast, chan,
                   inbox, fetches, marks, insert, selects, observed>>
    /\ UNCHANGED <<loading, currentProfile, profiles, boot, isRecording,
                   fileInput>>

\* uploadFile returning the public URL without a look at uploadError
UploadedUrlUnchecked(j) == PublicUrl(ObjectName)

\* what uploadFile returns: null on an upload error, the public URL otherwise
UploadedUrl(j) == IF j.phase = "uploaded" THEN j.url ELSE NULL

\* uploadFile continues after its await (toast and null on an error, the
\* public URL otherwise) and so does its caller: the insert request with a
\* URL, setIsLoading(false) without one
AfterUpload(k) ==
    /\ job[k].phase \in {"uploaded", "uploadFailed"}
    /\ toast' = IF job[k].phase = "uploadFailed" THEN TOAST_UPLOAD ELSE toast
    /\ IF UploadedUrl(job[k]) # NULL
       THEN /\ job' = [job EXCEPT ![k].phase = "inserting",
                                  ![k].url = UploadedUrl(job[k])]
            /\ UNCHANGED isLoading
       ELSE /\ isLoading' = FALSE
            /\ job' = [job EXCEPT ![k] = IdleJob]
    /\ fileInput' = IF k = "image" /\ UploadedUrl(job[k]) = NULL
                    THEN "" ELSE fileInput
    /\ UNCHANGED <<store, selectedRecipient, messages, chan, inbox, fetches,
                   marks, insert, selects, observed, failures>>
    /\ UNCHANGED <<loading, currentProfile, profiles, boot, isRecording,
                   bucket>>

\* the backend executes the insert of an attachment message (or fails it)
MediaInsertExecute(k, ok) ==
    /\ job[k].phase = "inserting"
    /\ ok \/ failures < MaxFailures
    /\ failures' = IF ok THEN failures ELSE failures + 1
    /\ LET row == MediaRow(job[k].profile, job[k].recipient, k, job[k].url)
       IN  IF ok /\ RoomForRow /\ CanInsert(UserOf(Me), row)
           THEN /\ store' = Append(store, row)
                /\ inbox' = Publish(<<[type |-> "INSERT", new |-> row]>>)
                /\ job' = [job EXCEPT ![k].phase = "insertOk"]
           ELSE /\ job' = [job EXCEPT ![k].phase = "insertError"]
                /\ UNCHANGED <<store, inbox>>
    /\ UNCHANGED <<selectedRecipient, messages, isLoading, toast, chan,
                   fetches, marks, insert, selects, observed>>
    /\ UNCHANGED <<loading, currentProfile, profiles, boot, isRecording, bucket,
                   fileInput>>

\* handleImageUpload / onstop continue after the insert: toast on an error,
\* setIsLoading(false)
MediaReturn(k) ==
    /\ job[k].phase \in {"insertOk", "insertError"}
    /\ toast' = IF job[k].phase = "insertOk" THEN toast
                ELSE IF k = "image" THEN TOAST_IMAGE ELSE TOAST_VOICE
    /\ isLoading' = FALSE
    /\ job' = [job EXCEPT ![k] = IdleJob]
    /\ fileInput' = IF k = "image" THEN "" ELSE fileInput
    /\ UNCHANGED <<store, selectedRecipient, messages, chan, inbox, fetches,
                   marks, insert, selects, observed, failures>>
    /\ UNCHANGED <<loading, currentProfile, profiles, boot, isRecording,
                   bucket>>

\* the view once the mount effect has loaded the profile and the directory
ComposerInit ==
    /\ loading = FALSE
    /\ currentProfile = Me
    /\ profiles = Directory
    /\ boot = [profile |-> "done", list |-> "done"]
    /\ job = [k \in Kinds |-> IdleJob]
    /\ isRecording = FALSE
    /\ bucket = {}
    /\ fileInput = ""

\* the view as constructed: the mount effect has sent its two requests
MountInit ==
    /\ loading = TRUE
    /\ currentProfile = NoOne
    /\ profiles = {}
    /\ boot = [profile |-> "sent", list |-> "sent"]
    /\ job = [k \in Kinds |-> IdleJob]
    /\ isRecording = FALSE
    /\ bucket = {}
    /\ fileInput = ""

(***************************************************************************)
(* Auth: the credentialed gate                                             *)
(***************************************************************************)
AuthModes == {"login", "signup", "forgot", "reset"}

\* what the user can type into the username input
UsernameInputs == {<<>>, <<" ">>, <<"a">>}

\* what the user can type into the password inputs: five characters, and
\* two different passwords of six
PasswordInputs ==
    { <<"a", "a", "a", "a", "a">>,
      <<"a", "a", "a", "a", "a", "a">>,
      <<"a", "a", "a", "a", "a", "A">> }

\* password.length < 6
MIN_PASSWORD_LENGTH == 6

\* the toasts of handleSubmit
AUTH_TOAST ==
    [ none |-> "",
      welcome |-> "Welcome back!",
      created |-> "Account created! You're now logged in.",
      link |-> "Password reset link sent! Check your email.",
      updated |-> "Password updated successfully!",
      username |-> "Username is required",
      mismatch |-> "Passwords do not match",
      short |-> "Password must be at least 6 characters",
      error |-> "error.message" ]

NoRequest == [kind |-> "none", phase |-> "idle"]

AuthMounted == ~navigated

\* the effect on [navigate, mode] runs with mode m: it subscribes anew, its
\* listener closing over m, and calls getSession(), whose promise closes
\* over m as well
EffectRun(m) == sessionChecks \cup {[mode |-> m]}

\* the listener and the getSession callback alike: session && mode !== "reset"
Redirects(s, m) == s /\ m # "reset"

\* a setMode that ignores its argument and enters reset mode
SetModeReset(m) ==
    /\ mode' = "reset"
    /\ sessionChecks' = IF mode # "reset" THEN EffectRun("reset")
                        ELSE sessionChecks

\* setMode(m) from a button: the effect runs again when the mode changed
SetMode(m) ==
    /\ mode' = m
    /\ sessionChecks' = IF m # mode THEN EffectRun(m) ELSE sessionChecks

\* the username, password and confirmation inputs
TypeUsername(u) ==
    /\ AuthMounted
    /\ mode = "signup"
    /\ username' = u
    /\ UNCHANGED <<mode, password, confirmPassword, authLoading, authToast,
                   navigated, authReq, session, authEvents, sessionChecks,
                   submits>>

TypePassword(p) ==
    /\ AuthMounted
    /\ mode \in {"login", "signup", "reset"}
    /\ password' = p
    /\ UNCHANGED <<mode, username, confirmPassword, authLoading, authToast,
                   navigated, authReq, session, authEvents, sessionChecks,
                   submits>>

TypeConfirmPassword(p) ==
    /\ AuthMounted
    /\ mode = "reset"
    /\ confirmPassword' = p
    /\ UNCHANGED <<mode, username, password, authLoading, authToast,
                   navigated, authReq, session, authEvents, sessionChecks,
                   submits>>

\* "Don't have an account? Sign up" / "Already have an account? Sign in"
ToggleSignup ==
    /\ AuthMounted
    /\ mode \in {"login", "signup"}
    /\ SetMode(IF mode = "login" THEN "signup" ELSE "login")
    /\ UNCHANGED <<username, password, confirmPassword, authLoading,
                   authToast, navigated, authReq, session, authEvents, submits>>

\* "Forgot password?"
ForgotPassword ==
    /\ AuthMounted
    /\ mode = "login"
    /\ SetMode("forgot")
    /\ UNCHANGED <<username, password, confirmPassword, authLoading,
                   authToast, navigated, authReq, session, authEvents, submits>>

\* "Back to login"
BackToLogin ==
    /\ AuthMounted
    /\ mode \in {"forgot", "reset"}
    /\ SetMode("login")
    /\ UNCHANGED <<username, password, confirmPassword, authLoading,
                   authToast, navigated, authReq, session, authEvents, submits>>

\* the validation of handleSubmit: the toast of the check that rejects the
\* form in mode m, none when the form passes
RejectedByValidation(m) ==
    IF m = "signup"
    THEN IF Trim(username) = <<>> THEN AUTH_TOAST.username ELSE AUTH_TOAST.none
    ELSE IF m = "reset"
    THEN IF password # confirmPassword THEN AUTH_TOAST.mismatch
         ELSE IF Len(password) < MIN_PASSWORD_LENGTH THEN AUTH_TOAST.short
         ELSE AUTH_TOAST.none
    ELSE AUTH_TOAST.none

\* the request handleSubmit sends in mode m
RequestOf(m) ==
    CASE m = "login" -> "signInWithPassword"
      [] m = "signup" -> "signUp"
      [] m = "forgot" -> "resetPasswordForEmail"
      [] OTHER -> "updateUser"

\* Auth.handleSubmit up to its await; the submit button is disabled while
\* loading
AuthSubmit ==
    /\ AuthMounted
    /\ ~authLoading
    /\ submits < MaxSubmits
    /\ submits' = submits + 1
    /\ IF RejectedByValidation(mode) # AUTH_TOAST.none
       THEN /\ authToast' = RejectedByValidation(mode)
            /\ UNCHANGED <<authLoading, authReq>>
       ELSE /\ authLoading' = TRUE
            /\ authReq' = [kind |-> RequestOf(mode), phase |-> "sent"]
            /\ UNCHANGED authToast
    /\ UNCHANGED <<mode, username, password, confirmPassword, navigated,
                   session, authEvents, sessionChecks>>

\* the auth backend answers the request of handleSubmit; a sign-in or
\* sign-up gives the browser a session, and every change of the session is
\* notified
AuthExecute(ok) ==
    /\ authReq.phase = "sent"
    /\ authReq.kind = "updateUser" /\ ~session => ~ok
    /\ authReq' = [authReq EXCEPT !.phase = IF ok THEN "ok" ELSE "error"]
    /\ IF ok /\ authReq.kind \in {"signInWithPassword", "signUp"}
       THEN /\ session' = TRUE
            /\ authEvents' = Append(authEvents,
                                [event |-> "SIGNED_IN", session |-> TRUE])
       ELSE IF ok /\ authReq.kind = "updateUser"
       THEN /\ authEvents' = Append(authEvents,
                                [event |-> "USER_UPDATED", session |-> TRUE])
            /\ UNCHANGED session
       ELSE UNCHANGED <<session, authEvents>>
    /\ UNCHANGED <<mode, username, password, confirmPassword, authLoading,
                   authToast, navigated, sessionChecks, submits>>

\* Auth.handleSubmit after its await: the success toast (and in the reset
\* branch setMode("login"), navigate("/")), or the catch block; finally
\* setLoading(false). Nothing is left of it once Auth is unmounted.
AuthReturn ==
    /\ authReq.phase \in {"ok", "error"}
    /\ authReq' = NoRequest
    /\ authLoading' = FALSE
    /\ IF authReq.phase = "error"
       THEN /\ authToast' = AUTH_TOAST.error
            /\ UNCHANGED <<mode, sessionChecks, navigated>>
       ELSE /\ authToast' =
                 CASE authReq.kind = "signInWithPassword" -> AUTH_TOAST.welcome
                   [] authReq.kind = "signUp" -> AUTH_TOAST.created
                   [] authReq.kind = "resetPasswordForEmail" -> AUTH_TOAST.link
                   [] OTHER -> AUTH_TOAST.updated
            /\ IF authReq.kind = "updateUser"
               THEN /\ SetMode("login")
                    /\ navigated' = TRUE
               ELSE UNCHANGED <<mode, sessionChecks, navigated>>
    /\ UNCHANGED <<username, password, confirmPassword, session, authEvents,
                   submits>>

\* the user follows the password-recovery link of the mail: the browser
\* gets a session and PASSWORD_RECOVERY is notified
RecoveryLink ==
    /\ AuthMounted
    /\ ~session
    /\ session' = TRUE
    /\ authEvents' = Append(authEvents,
                        [event |-> "PASSWORD_RECOVERY", session |-> TRUE])
    /\ UNCHANGED <<mode, username, password, confirmPassword, authLoading,
                   authToast, navigated, authReq, sessionChecks, submits>>

\* the onAuthStateChange listener, on the next notification
OnAuthStateChange ==
    /\ AuthMounted
    /\ authEvents # <<>>
    /\ authEvents' = Tail(authEvents)
    /\ IF Head(authEvents).event = "PASSWORD_RECOVERY"
       THEN /\ SetMode("reset")
            /\ UNCHANGED navigated
       ELSE /\ navigated' = (navigated \/ Redirects(Head(authEvents).session, mode))
            /\ UNCHANGED <<mode, sessionChecks>>
    /\ UNCHANGED <<username, password, confirmPassword, authLoading,
                   authToast, authReq, session, submits>>

\* a getSession() promise resolves: the callback of the effect run that
\* made it
SessionResolve(c) ==
    /\ AuthMounted
    /\ c \in sessionChecks
    /\ sessionChecks' = sessionChecks \ {c}
    /\ navigated' = (navigated \/ Redirects(session, c.mode))
    /\ UNCHANGED <<mode, username, password, confirmPassword, authLoading,
                   authToast, authReq, session, authEvents, submits>>

\* navigate("/") has replaced the Auth page by the index page: the state of
\* the Auth component is gone, its subscription cancelled
AuthUnmounted ==
    /\ navigated
    /\ mode = "login"
    /\ username = <<>>
    /\ password = <<>>
    /\ confirmPassword = <<>>
    /\ authLoading = FALSE
    /\ authToast = AUTH_TOAST.none
    /\ authReq = NoRequest
    /\ authEvents = <<>>
    /\ sessionChecks = {}
    /\ submits = 0

\* the router renders "/" in place of the Auth page
RouteToIndex ==
    /\ navigated
    /\ authReq = NoRequest
    /\ ~AuthUnmounted
    /\ mode' = "login"
    /\ username' = <<>>
    /\ password' = <<>>
    /\ confirmPassword' = <<>>
    /\ authLoading' = FALSE
    /\ authToast' = AUTH_TOAST.none
    /\ authEvents' = <<>>
    /\ sessionChecks' = {}
    /\ submits' = 0
    /\ UNCHANGED <<navigated, authReq, session>>

\* Auth as constructed, its effect run once
AuthInit ==
    /\ mode = "login"
    /\ username = <<>>
    /\ password = <<>>
    /\ confirmPassword = <<>>
    /\ authLoading = FALSE
    /\ authToast = AUTH_TOAST.none
    /\ navigated = FALSE
    /\ authReq = NoRequest
    /\ session = FALSE
    /\ authEvents = <<>>
    /\ sessionChecks = {[mode |-> "login"]}
    /\ submits = 0

(***************************************************************************)
(* The typing channels and their names                                     *)
(***************************************************************************)
HexDigits == {"0", "a"}

\* profiles.id, a UUID in its text form: groups of hexadecimal digits
\* separated by '-', every id of the same shape (here two groups of one)
ProfileIds == {<<x, "-", y>> : x, y \in HexDigits}

\* the UTF-16 code unit of a character of an id
CodeUnit(c) == CASE c = "-" -> 45 [] c = "0" -> 48 [] OTHER -> 97

\* the default comparison of Array.prototype.sort(): strings by code units
RECURSIVE StringLess(_, _)
StringLess(s, t) ==
    IF t = <<>> THEN FALSE
    ELSE IF s = <<>> THEN TRUE
    ELSE IF Head(s) = Head(t) THEN StringLess(Tail(s), Tail(t))
    ELSE CodeUnit(Head(s)) < CodeUnit(Head(t))

\* an array of two ids left in the order given
SortNot(pair) == pair

\* [x, y].sort()
Sort(pair) ==
    IF StringLess(pair[2], pair[1]) THEN <<pair[2], pair[1]>> ELSE pair

\* [x, y].join('-')
Join(pair) == pair[1] \o <<"-">> \o pair[2]

\* `typing-${[currentProfile.id, selectedRecipient].sort().join('-')}` in the
\* conversation effect
typingChannel(id, recipient) ==
    <<"t", "y", "p", "i", "n", "g", "-">> \o Join(Sort(<<id, recipient>>))

\* the same template in sendTypingIndicator
channelName(id, recipient) ==
    <<"t", "y", "p", "i", "n", "g", "-">> \o Join(Sort(<<id, recipient>>))

\* a view with no recipient selected, and no broadcast sent yet
NoSubscription == [peer |-> <<>>, name |-> <<>>]

NoBroadcast == [name |-> <<>>, payload |-> [user_id |-> <<>>], peer |-> <<>>]

\* the view of profile a selects b: its conversation effect subscribes to
\* the typing channel of the pair
SubscribeTyping(a, b) ==
    /\ a # b
    /\ typingSubs[a].peer # b
    /\ typingSubs' = [typingSubs EXCEPT
                         ![a] = [peer |-> b, name |-> typingChannel(a, b)]]
    /\ UNCHANGED typingWire

\* sendTypingIndicator in the view of profile a (nothing without a selected
\* recipient): the broadcast, and the recipient selected when it was sent
SendTypingIndicator(a) ==
    /\ typingSubs[a] # NoSubscription
    /\ typingWire' = [name |-> channelName(a, typingSubs[a].peer),
                      payload |-> [user_id |-> a],
                      peer |-> typingSubs[a].peer]
    /\ UNCHANGED typingSubs

ChannelInit ==
    /\ typingSubs = [a \in ProfileIds |-> NoSubscription]
    /\ typingWire = NoBroadcast

(***************************************************************************)
(* public.messages behind its policies: the requests of any account        *)
(***************************************************************************)
\* auth.users: the accounts of the profiles
Accounts == {UserOf(p) : p \in Profiles}

\* what an update request may set: read_at, or one of the two references
\* to profiles
Patches ==
    {[col |-> "read_at", to |-> NoOne]}
        \cup {[col |-> c, to |-> q] : c \in {"sender_id", "recipient_id"},
                                     q \in Profiles}

\* row m after patch d
Patched(m, d) ==
    CASE d.col = "read_at" -> [m EXCEPT !.read_at = <<"update">>]
      [] d.col = "sender_id" -> [m EXCEPT !.sender_id = d.to]
      [] OTHER -> [m EXCEPT !.recipient_id = d.to]

\* the rest of the chat state, which a request to the table leaves alone
viewVars == <<selectedRecipient, messages, isLoading, toast, chan, inbox,
              fetches, marks, insert, selects, observed, failures>>

\* account u selects from public.messages: the rows the select policy
\* lets it see
RequestSelect(u) ==
    /\ seen' = [by |-> u, rows |-> {m.id : m \in {n \in Range(store) : CanView(u, n)}}]
    /\ UNCHANGED <<store, viewVars>>

\* account u inserts a row from profile `from` to profile `to`: stored when
\* the insert policy's WITH CHECK passes
RequestInsert(u, from, to) ==
    /\ Len(store) < MaxMsgs
    /\ store' = IF CanInsert(u, NewRow(from, to))
                THEN Append(store, NewRow(from, to))
                ELSE store
    /\ UNCHANGED <<seen, viewVars>>

\* account u updates row i with patch d: the row is a target when the
\* update policy's USING passes (and the select policy, for the filter on
\* id), and the new row must pass its WITH CHECK
RequestUpdate(u, i, d) ==
    /\ i \in 1..Len(store)
    /\ store' = IF /\ CanView(u, store[i])
                   /\ CanUpdate(u, store[i])
                   /\ CanUpdate(u, Patched(store[i], d))
                THEN [store EXCEPT ![i] = Patched(store[i], d)]
                ELSE store
    /\ UNCHANGED <<seen, viewVars>>

\* account u deletes row i: public.messages has no delete policy, so no row
\* is ever a target
RequestDelete(u, i) ==
    /\ i \in 1..Len(store)
    /\ UNCHANGED <<store, seen, viewVars>>

PolicyInit == seen = [by |-> NoOne, rows |-> {}]

(***************************************************************************)
(* Specifications                                                          *)
(***************************************************************************)
\* the view mounted, its profile and directory loaded
Init ==
    /\ GateInit /\ ChatInit /\ TypingInit /\ PresenceInit /\ ComposerInit
    /\ AuthInit /\ ChannelInit /\ PolicyInit

\* the view as constructed
InitMount ==
    /\ GateInit /\ ChatInit /\ TypingInit /\ PresenceInit /\ MountInit
    /\ AuthInit /\ ChannelInit /\ PolicyInit

notGate == <<chatVars, typingVars, presenceVars, composerVars, authVars,
            channelVars, seen>>
notChat == <<gateVars, typingVars, presenceVars, composerVars, authVars,
            channelVars, seen>>
notTyping == <<gateVars, chatVars, presenceVars, composerVars, authVars,
            channelVars, seen>>
notPresence == <<gateVars, chatVars, typingVars, composerVars, authVars,
            channelVars, seen>>
notComposer == <<gateVars, typingVars, presenceVars, authVars, channelVars, seen>>
notAuth == <<gateVars, chatVars, typingVars, presenceVars, composerVars,
            channelVars, seen>>
notPolicy == <<gateVars, typingVars, presenceVars, composerVars, authVars,
              channelVars>>
notChannel == <<gateVars, chatVars, typingVars, presenceVars, composerVars,
               authVars, seen>>

GateNext ==
    \/ (\E s \in AliasInputs : HandleNameChange(s)) /\ UNCHANGED notGate
    \/ (\E s \in CodeInputs : HandleCodeChange(s)) /\ UNCHANGED notGate
    \/ HandleSubmit /\ UNCHANGED notGate
    \/ ShakeTimeout /\ UNCHANGED notGate
    \/ HandleLogout /\ UNCHANGED notGate

Next ==
    \/ (\E p \in Profiles : SelectRecipient(p)) /\ UNCHANGED notChat
    \/ ChannelJoined /\ UNCHANGED notChat
    \/ (\E f \in fetches, ok \in BOOLEAN : FetchExecute(f, ok))
          /\ UNCHANGED notChat
    \/ (\E f \in fetches : FetchReturn(f)) /\ UNCHANGED notChat
    \/ HandleSendMessage /\ UNCHANGED notChat
    \/ (\E ok \in BOOLEAN : InsertExecute(ok)) /\ UNCHANGED notChat
    \/ InsertReturn /\ UNCHANGED notChat
    \/ HandleEvent /\ UNCHANGED notChat
    \/ (\E r \in marks : MarkExecute(r)) /\ UNCHANGED notChat
    \/ (\E r \in marks : MarkFail(r)) /\ UNCHANGED notChat
    \/ (\E p \in Peers, q \in Profiles : PeerSend(p, q)) /\ UNCHANGED notChat
    \/ (\E p \in Peers, q \in Profiles : PeerOpensConversation(p, q))
          /\ UNCHANGED notChat
    \/ (\E p \in Peers, i \in 1..MaxMsgs : PeerReceivesInsert(p, i))
          /\ UNCHANGED notChat

TypingNext ==
    \/ (\E p \in Peers : TypingSubscribe(p)) /\ UNCHANGED notTyping
    \/ (\E u \in Profiles : OnTyping(u)) /\ UNCHANGED notTyping
    \/ (\E d \in timers : TypingTimeout(d)) /\ UNCHANGED notTyping
    \/ Tick /\ UNCHANGED notTyping

PresenceNext ==
    \/ (\E c \in Clients : Mount(c)) /\ UNCHANGED notPresence
    \/ (\E c \in Clients : Unmount(c)) /\ UNCHANGED notPresence
    \/ (\E c \in Clients : Disconnect(c)) /\ UNCHANGED notPresence
    \/ (\E c \in Clients, ok \in BOOLEAN : ServerJoin(c, ok))
          /\ UNCHANGED notPresence
    \/ (\E c \in Clients : ServerTrack(c)) /\ UNCHANGED notPresence
    \/ (\E c \in Clients : ServerLeave(c)) /\ UNCHANGED notPresence
    \/ (\E c \in Clients : ClientReceive(c)) /\ UNCHANGED notPresence

ComposerNext ==
    \/ (\E ok \in BOOLEAN : ProfileExecute(ok)) /\ UNCHANGED notComposer
    \/ ProfileReturn /\ UNCHANGED notComposer
    \/ (\E ok \in BOOLEAN : ListExecute(ok)) /\ UNCHANGED notComposer
    \/ ListReturn /\ UNCHANGED notComposer
    \/ (\E p \in Profiles : PickRecipient(p)) /\ UNCHANGED notComposer
    \/ (\E f \in fetches, ok \in BOOLEAN : FetchExecute(f, ok))
          /\ UNCHANGED <<notComposer, composerVars>>
    \/ (\E f \in fetches : FetchReturn(f))
          /\ UNCHANGED <<notComposer, composerVars>>
    \/ SubmitText /\ UNCHANGED notComposer
    \/ (\E ok \in BOOLEAN : InsertExecute(ok))
          /\ UNCHANGED <<notComposer, composerVars>>
    \/ InsertReturn /\ UNCHANGED <<notComposer, composerVars>>
    \/ (\E b \in BOOLEAN : ChooseImage(b)) /\ UNCHANGED notComposer
    \/ (\E b \in BOOLEAN : StartRecording(b)) /\ UNCHANGED notComposer
    \/ StopRecording /\ UNCHANGED notComposer
    \/ OnStop /\ UNCHANGED notComposer
    \/ (\E k \in Kinds, ok \in BOOLEAN : UploadExecute(k, ok))
          /\ UNCHANGED notComposer
    \/ (\E k \in Kinds : AfterUpload(k)) /\ UNCHANGED notComposer
    \/ (\E k \in Kinds, ok \in BOOLEAN : MediaInsertExecute(k, ok))
          /\ UNCHANGED notComposer
    \/ (\E k \in Kinds : MediaReturn(k)) /\ UNCHANGED notComposer

AuthNext ==
    \/ (\E u \in UsernameInputs : TypeUsername(u)) /\ UNCHANGED notAuth
    \/ (\E p \in PasswordInputs : TypePassword(p)) /\ UNCHANGED notAuth
    \/ (\E p \in PasswordInputs : TypeConfirmPassword(p)) /\ UNCHANGED notAuth
    \/ ToggleSignup /\ UNCHANGED notAuth
    \/ ForgotPassword /\ UNCHANGED notAuth
    \/ BackToLogin /\ UNCHANGED notAuth
    \/ AuthSubmit /\ UNCHANGED notAuth
    \/ (\E ok \in BOOLEAN : AuthExecute(ok)) /\ UNCHANGED notAuth
    \/ AuthReturn /\ UNCHANGED notAuth
    \/ RecoveryLink /\ UNCHANGED notAuth
    \/ OnAuthStateChange /\ UNCHANGED notAuth
    \/ (\E c \in sessionChecks : SessionResolve(c)) /\ UNCHANGED notAuth

ChannelNext ==
    \/ (\E a, b \in ProfileIds : SubscribeTyping(a, b)) /\ UNCHANGED notChannel
    \/ (\E a \in ProfileIds : SendTypingIndicator(a)) /\ UNCHANGED notChannel

SpecChannel == Init /\ [][ChannelNext]_vars

PolicyNext ==
    \/ (\E u \in Accounts : RequestSelect(u)) /\ UNCHANGED notPolicy
    \/ (\E u \in Accounts, from, to \in Profiles : RequestInsert(u, from, to))
          /\ UNCHANGED notPolicy
    \/ (\E u \in Accounts, i \in 1..MaxMsgs, d \in Patches :
            RequestUpdate(u, i, d)) /\ UNCHANGED notPolicy
    \/ (\E u \in Accounts, i \in 1..MaxMsgs : RequestDelete(u, i))
          /\ UNCHANGED notPolicy

SpecPolicy == Init /\ [][PolicyNext]_vars

SpecGate == Init /\ [][GateNext]_vars

SpecAuth == Init /\ [][AuthNext]_vars

\* the Auth page, and the chat view once navigate("/") has replaced it
AppNext ==
    \/ AuthNext
    \/ RouteToIndex /\ UNCHANGED notAuth
    \/ AuthUnmounted /\ ComposerNext

SpecApp == InitMount /\ [][AppNext]_vars

SpecComposer == InitMount /\ [][ComposerNext]_vars

Spec == Init /\ [][Next]_vars

SpecTyping == Init /\ [][TypingNext]_vars

SpecPresence == Init /\ [][PresenceNext]_vars

(***************************************************************************)
(* Claims about the conversation store                                     *)
(***************************************************************************)
\* nothing the backend has sent to the view is still under way
Quiescent == fetches = {} /\ inbox = <<>>

Shows(i) == \E k \in 1..Len(messages) : messages[k].id = i

ShowsRead(i) ==
    \E k \in 1..Len(messages) : messages[k].id = i /\ messages[k].read_at # NULL

ShowsUnread(i) ==
    \E k \in 1..Len(messages) : messages[k].id = i /\ messages[k].read_at = NULL

\* C3 as stated: a row the view inserted with the conversation open, whose
\* INSERT event the subscription of that conversation has handled, is in the
\* view's message list once every history response and change event sent to
\* the view has arrived, whatever the order of arrival.
C3_AsStated ==
    \A i \in 1..Len(store) :
        ( /\ store[i].sender_id = Me
          /\ store[i].recipient_id = selectedRecipient
          /\ <<"appended", i>> \in observed
          /\ Quiescent ) => Shows(i)

\* C4 as stated: a row whose read_at is set never has its read_at written
\* again. Stated of the rows addressed to the view, whose read_at updates
\* (markMessagesAsRead on opening the conversation, markMessageAsRead on an
\* INSERT event) the model follows request by request.
C4_AsStated ==
    [][\A i \in 1..Len(store) :
          (store[i].recipient_id = Me /\ store[i].read_at # NULL)
             => store'[i].read_at = store[i].read_at]_vars

\* C5 as stated: no row of the backend goes from read to unread, and no
\* message of the view's list that an UPDATE event has patched goes from
\* read to unread in the list.
C5_AsStated ==
    [][ /\ \A i \in 1..Len(store) :
              store[i].read_at # NULL => store'[i].read_at # NULL
        /\ \A i \in 1..Len(store) :
              (<<"patched", i>> \in observed /\ ShowsRead(i))
                 => \A k \in 1..Len(messages') :
                       messages'[k].id = i => messages'[k].read_at # NULL ]_vars

\* C8 as stated: a row the view sent and showed unread, with the
\* conversation with its recipient open and the change feed joined, when the
\* recipient's view marked it read, is shown read once every history response
\* and change event sent to the view has arrived.
C8_AsStated ==
    \A i \in 1..Len(store) :
        ( /\ <<"owed", i>> \in observed
          /\ store[i].recipient_id = selectedRecipient
          /\ Quiescent ) => ShowsRead(i)

\* C9: an INSERT event is appended to the list exactly when its (sender_id,
\* recipient_id) is (currentProfile, selectedRecipient) or the reverse, and
\* otherwise leaves the list as it is; an UPDATE event keeps the length of
\* the list, replaces the entries with its id by its row, keeps every other
\* entry, and so changes nothing when no entry has its id.
C9_EventFiltering ==
    [][HandleEvent =>
         LET m == Head(inbox).new
         IN  IF Head(inbox).type = "INSERT"
             THEN IF <<m.sender_id, m.recipient_id>> \in
                        {<<Me, selectedRecipient>>, <<selectedRecipient, Me>>}
                  THEN messages' = Append(messages, m)
                  ELSE messages' = messages
             ELSE /\ Len(messages') = Len(messages)
                  /\ \A k \in 1..Len(messages) :
                        messages'[k] = IF messages[k].id = m.id THEN m
                                       ELSE messages[k]
                  /\ (~Shows(m.id) => messages' = messages)]_vars

\* the open subscription has appended one INSERT event and passed over one
\* of another pair
C9_Witness ==
    \E i, j \in 1..Len(store) :
        /\ <<"appended", i>> \in observed
        /\ <<"ignored", j>> \in observed
        /\ Shows(i)
        /\ ~Shows(j)

\* the record of history request f once the backend has answered it
Answered(f) == CHOOSE g \in fetches' : g.no = f.no

\* C10: the rows a successful history request returns are the stored rows
\* between the caller and the peer, each once, none of another pair, in
\* ascending created_at order, and the response replaces the list by them;
\* a failed request leaves the list as it is and shows the error toast.
C10_LoadHistory ==
    [][\A f \in fetches :
          /\ FetchExecute(f, TRUE) =>
                LET d == Answered(f).data
                IN  /\ Range(d) =
                          {m \in Range(store) :
                              \/ m.sender_id = Me /\ m.recipient_id = f.peer
                              \/ m.sender_id = f.peer /\ m.recipient_id = Me}
                    /\ \A j, k \in 1..Len(d) :
                          j < k => d[j] # d[k] /\ d[j].created_at <= d[k].created_at
          /\ (FetchReturn(f) /\ f.phase = "ok") => messages' = f.data
          /\ (FetchReturn(f) /\ f.phase = "error") =>
                messages' = messages /\ toast' = TOAST_LOAD]_vars

\* a history of two rows, one in each direction, has replaced the list
C10_Witness ==
    /\ Len(messages) = 2
    /\ messages[1].sender_id # messages[2].sender_id
    /\ \A k \in 1..2 : {messages[k].sender_id, messages[k].recipient_id}
                          = {Me, selectedRecipient}
    /\ \A i \in 1..Len(store) : <<"appended", i>> \notin observed

(***************************************************************************)
(* Claims about the typing indicator                                       *)
(***************************************************************************)
\* C6: typing indicator decay. From the moment the handler accepts a typing
\* broadcast of the selected peer the indicator is on for the 2 s that
\* follow, and it is off once 2 s have passed without another one; a
\* broadcast accepted within those 2 s cancels the pending timer and starts a
\* new one, so exactly one timer is pending while the indicator is on, due 2 s
\* after the latest broadcast, and the indicator is never off in between.
C6_TypingDecay ==
    /\ isRecipientTyping =>
          /\ lastTypingAt # NO_TIMER
          /\ now - lastTypingAt <= TYPING_DECAY_MS
          /\ timers = {lastTypingAt + TYPING_DECAY_MS}
    /\ (lastTypingAt # NO_TIMER /\ now - lastTypingAt < TYPING_DECAY_MS)
          => isRecipientTyping
    /\ timers \subseteq {typingTimeoutRef}

\* a second broadcast came within 2 s of the first, and the indicator is
\* still on after the first one's 2 s have passed
C6_Witness ==
    /\ isRecipientTyping
    /\ prevTypingAt # NO_TIMER
    /\ prevTypingAt < lastTypingAt
    /\ lastTypingAt < prevTypingAt + TYPING_DECAY_MS
    /\ now > prevTypingAt + TYPING_DECAY_MS

(***************************************************************************)
(* Claims about presence                                                   *)
(***************************************************************************)
UpToDate(c) == status[c] = "SUBSCRIBED" /\ down[c] = <<>>

\* C7: presence. After every 'sync' the onlineUsers of a session are the
\* profile ids of the presences in its presenceState, and once the session
\* has handled everything the server sent they are the profile ids of the
\* sessions the server holds tracked: a profile with a tracked session is
\* shown online, a profile without one is not. A session sends its track
\* only when its subscription has reported SUBSCRIBED, and after its unmount
\* has reached the server it is tracked no longer.
C7_PresenceSync ==
    /\ \A c \in Clients :
          ChannelOpen(c) =>
             onlineUsers[c] = {ProfileOf(k) : k \in presenceState[c]}
    /\ \A c \in Clients :
          UpToDate(c) => onlineUsers[c] = {ProfileOf(k) : k \in tracked}
    /\ \A c \in Clients :
          (c \in tracked \/ "track" \in Range(up[c])) =>
             \/ status[c] = "SUBSCRIBED"
             \/ status[c] = "CLOSED" /\ "leave" \in Range(up[c])
    /\ \A c \in Clients :
          (status[c] = "CLOSED" /\ up[c] = <<>>) => c \notin tracked

\* session s1 has shown profile p2 online, both sessions of p2 have gone,
\* and after the syncs that followed s1 shows p2 online no longer
C7_Witness ==
    /\ UpToDate("s1")
    /\ "s1" \in tracked
    /\ "p2" \in shown["s1"]
    /\ "p2" \notin onlineUsers["s1"]
    /\ status["s2"] = "CLOSED"
    /\ status["s3"] = "CLOSED"

(***************************************************************************)
(* Claims about the order of the message list                              *)
(***************************************************************************)
\* C11 as stated: in every reachable state the message list of the view is
\* in ascending created_at order.
C11_AsStated ==
    \A j, k \in 1..Len(messages) :
        j < k => messages[j].created_at <= messages[k].created_at

(***************************************************************************)
(* Claims about read_at updates                                            *)
(***************************************************************************)
\* what the claim says an executed markMessagesAsRead request r does
BulkEffect(r) ==
    /\ Len(store') = Len(store)
    /\ \A i \in 1..Len(store) :
          IF /\ store[i].sender_id = r.sender
             /\ store[i].recipient_id = r.by
             /\ store[i].read_at = NULL
          THEN /\ store'[i].read_at # NULL
               /\ [store'[i] EXCEPT !.read_at = NULL] = store[i]
          ELSE store'[i] = store[i]

\* C12: an executed markMessagesAsRead sets read_at on every row with
\* sender = peer, recipient = caller and read_at absent, and leaves every
\* other row (of another peer, sent by the caller, already read) as it is;
\* the view issues the request only with a peer selected, for that peer.
C12_MarkRead ==
    [][ /\ \A r \in marks :
              (MarkExecute(r) /\ r.kind = "bulk") => BulkEffect(r)
        /\ \A p \in Peers, q \in Profiles :
              PeerOpensConversation(p, q) => BulkEffect(BulkMark(p, q))
        /\ \A r \in marks' \ marks :
              r.kind = "bulk" =>
                 /\ selectedRecipient' # NoOne
                 /\ r.sender = selectedRecipient'
                 /\ r.by = Me ]_vars

\* markMessagesAsRead of the view has set read_at of a row while an older
\* row addressed to the view by another sender stayed unread
C12_Witness ==
    \E i, j \in 1..Len(store) :
        /\ j < i
        /\ store[i].read_at = <<Me, "markMessagesAsRead">>
        /\ store[j].recipient_id = Me
        /\ store[j].sender_id # store[i].sender_id
        /\ store[j].read_at = NULL

(***************************************************************************)
(* Claims about the composer and the mount effect                          *)
(***************************************************************************)
UploadedUrls == {PublicUrl(n) : n \in bucket}

\* the rows that carry an attachment
MediaRows == {i \in 1..Len(store) :
                 store[i].image_url # NULL \/ store[i].voice_url # NULL}

AttachmentOf(i) ==
    IF store[i].image_url # NULL THEN store[i].image_url ELSE store[i].voice_url

\* C13: when uploadFile fails for an image or a voice clip the "Upload
\* failed" toast is shown and the send ends there, with no insert request and
\* no row; an insert request for an attachment is sent, and a row carrying
\* image_url or voice_url is stored, only with the URL of an object whose
\* upload succeeded, one row at most per object.
C13_UploadFailureAborts ==
    [][ /\ \A k \in Kinds :
              (AfterUpload(k) /\ job[k].phase = "uploadFailed") =>
                 /\ toast' = TOAST_UPLOAD
                 /\ job'[k] = IdleJob
                 /\ store' = store
        /\ \A k \in Kinds :
              job'[k].phase \in {"inserting", "insertOk", "insertError"} =>
                 job'[k].url \in UploadedUrls'
        /\ \A i \in MediaRows' :
              /\ AttachmentOf(i)' \in UploadedUrls'
              /\ \A j \in MediaRows' : AttachmentOf(j)' = AttachmentOf(i)' => j = i
      ]_vars

\* an upload has failed: the toast is up, the send is over, nothing is stored
C13_Witness ==
    /\ toast = TOAST_UPLOAD
    /\ failures = 1
    /\ \A k \in Kinds : job[k] = IdleJob
    /\ insert.phase = "idle"
    /\ ~isLoading
    /\ store = <<>>
    /\ bucket = {}


(***************************************************************************)
(* C14: no automatic retry                                                 *)
(***************************************************************************)
\* the backend requests in flight, by kind
InFlight ==
    [ fetchCurrentProfile |-> IF boot.profile = "sent" THEN {Me} ELSE {},
      fetchProfiles |-> IF boot.list = "sent" THEN {Me} ELSE {},
      fetchMessages |-> {f.no : f \in {g \in fetches : g.phase = "sent"}},
      markMessagesAsRead |-> marks,
      insertText |-> IF insert.phase = "sent" THEN {insert.recipient} ELSE {},
      upload |-> {k \in Kinds : job[k].phase = "uploading"},
      insertMedia |-> {k \in Kinds : job[k].phase = "inserting"},
      handleSubmit |-> IF authReq.phase = "sent" THEN {authReq.kind} ELSE {} ]

RequestKinds == DOMAIN InFlight

\* the requests of kind q that this step sends
Issued(q) == IF InFlight' = InFlight THEN {} ELSE InFlight'[q] \ InFlight[q]

\* this step is the handler's continuation after a failed request
FailureHandled ==
    \/ boot.profile = "error" /\ boot'.profile = "done"
    \/ boot.list = "error" /\ boot'.list = "done"
    \/ \E f \in fetches : f.phase = "error" /\ f \notin fetches'
    \/ insert.phase = "error" /\ insert'.phase # "error"
    \/ \E k \in Kinds :
          /\ job[k].phase \in {"uploadFailed", "insertError"}
          /\ job'[k].phase # job[k].phase
    \/ authReq.phase = "error" /\ authReq'.phase # "error"

\* this step is one of the user's actions: opening a conversation,
\* submitting a text, choosing an image, the end of a recording, submitting
\* the auth form
UserActs ==
    \/ \E p \in Profiles : PickRecipient(p)
    \/ SubmitText
    \/ ChooseImage(TRUE)
    \/ OnStop
    \/ AuthSubmit

\* this step is a handler going on after a request of its own succeeded:
\* the insert after the upload, the conversation effect after the profile
Proceeds ==
    \/ \E k \in Kinds : AfterUpload(k) /\ job[k].phase = "uploaded"
    \/ ProfileReturn /\ boot.profile = "ok"

Settled ==
    /\ boot = [profile |-> "done", list |-> "done"]
    /\ fetches = {}
    /\ insert.phase = "idle"
    /\ \A k \in Kinds : job[k].phase \in {"idle", "recording"}

\* C15 (as stated): with at most one failed request, once every request has
\* been answered and handled the view is past its 'Loading...' screen and
\* isLoading is false again.
C15_AsStated ==
    (failures <= 1 /\ Settled) => (~loading /\ ~isLoading)

(***************************************************************************)
(* C16: typing channel naming                                              *)
(***************************************************************************)
\* the two profiles of a subscription of profile a
PairOf(a) == {a, typingSubs[a].peer}

Subscribed == {a \in ProfileIds : typingSubs[a] # NoSubscription}

\* C16: two views that have selected each other are subscribed to the same
\* typing channel; a typing broadcast is sent on the channel its recipient's
\* view is subscribed to while it has the sender selected; and
\* subscriptions (and broadcasts) of different unordered pairs are on
\* different channels.
C16_ChannelNaming ==
    /\ \A a, b \in Subscribed :
          (typingSubs[a].peer = b /\ typingSubs[b].peer = a)
              => typingSubs[a].name = typingSubs[b].name
    /\ typingWire # NoBroadcast =>
          \A b \in Subscribed :
              (b = typingWire.peer /\ typingSubs[b].peer = typingWire.payload.user_id)
                  => typingSubs[b].name = typingWire.name
    /\ \A a, c \in Subscribed :
          typingSubs[a].name = typingSubs[c].name => PairOf(a) = PairOf(c)
    /\ typingWire # NoBroadcast =>
          \A a \in Subscribed :
              typingSubs[a].name = typingWire.name
                  => PairOf(a) = {typingWire.payload.user_id, typingWire.peer}

\* two views have selected each other, the one with the greater id has sent
\* a typing broadcast, and a third view is subscribed with one of them
C16_Witness ==
    \E a, b, c \in Subscribed :
        /\ StringLess(a, b)
        /\ typingSubs[a].peer = b
        /\ typingSubs[b].peer = a
        /\ c \notin {a, b}
        /\ typingSubs[c].peer = a
        /\ typingWire # NoBroadcast
        /\ typingWire.payload.user_id = b
        /\ typingWire.peer = a

(***************************************************************************)
(* C17: nobody converses with themselves                                   *)
(***************************************************************************)
\* C17: the directory, once loaded, is every profile but the caller's own;
\* the selected recipient is never the caller's profile; and no insert the
\* view has sent, and no row it has stored, has the caller as both sender
\* and recipient.
C17_NoSelfConversation ==
    /\ ~loading => profiles = Profiles \ {Me}
    /\ selectedRecipient # NoOne => selectedRecipient \in Profiles \ {Me}
    /\ insert.phase # "idle" => insert.recipient # Me
    /\ \A k \in Kinds :
          job[k].phase \in {"uploading", "uploaded", "inserting"}
              => job[k].profile = Me /\ job[k].recipient \in Profiles \ {Me}
    /\ \A i \in 1..Len(store) :
          store[i].sender_id = Me /\ store[i].recipient_id \in Profiles \ {Me}

\* the view has stored a text and a voice message and has a recipient
\* selected
C17_Witness ==
    /\ Len(store) = 2
    /\ \E i \in 1..2 : store[i].content = "text"
    /\ \E i \in 1..2 : store[i].voice_url # NULL
    /\ selectedRecipient # NoOne

(***************************************************************************)
(* C18: messages are immutable except for read_at                          *)
(***************************************************************************)
\* a row without its read_at
ButReadAt(m) == [m EXCEPT !.read_at = NULL]

\* C18: no step removes a stored row or changes its id, content,
\* sender_name, sender_id, recipient_id, created_at, image_url or voice_url:
\* the updates of the view and of its peers change read_at alone.
C18_Immutable ==
    [][ \A i \in 1..Len(store) :
            /\ i <= Len(store')
            /\ ButReadAt(store'[i]) = ButReadAt(store[i])
      ]_vars

\* both kinds of update have been executed: a row marked by
\* markMessagesAsRead and a row marked by markMessageAsRead
C18_Witness ==
    \E i, j \in 1..Len(store) :
        /\ store[i].read_at = <<Me, "markMessagesAsRead">>
        /\ store[j].read_at = <<Me, "markMessageAsRead">>

(***************************************************************************)
(* C19: the policies keep a message to its two participants                *)
(***************************************************************************)
\* account u owns the profile that sent m or the one that receives it
Participant(u, m) == \E p \in {m.sender_id, m.recipient_id} : UserOf(p) = u

\* this step is a request of account u to public.messages
RequestBy(u) ==
    \/ RequestSelect(u)
    \/ \E from, to \in Profiles : RequestInsert(u, from, to)
    \/ \E i \in 1..Len(store), d \in Patches : RequestUpdate(u, i, d)
    \/ \E i \in 1..Len(store) : RequestDelete(u, i)

\* C19: whatever an account requests, a select gives it only rows it is the
\* sender or the recipient of; an insert stores only a row whose sender is
\* its own profile; an update changes only rows it is the recipient of; no
\* row is removed; and a row between two other accounts is neither given to
\* it nor changed.
C19_PolicyRestricts ==
    [][ \A u \in Accounts : RequestBy(u) =>
          /\ Len(store') >= Len(store)
          /\ \A i \in 1..Len(store') :
                /\ (seen' # seen /\ store'[i].id \in seen'.rows)
                      => Participant(u, store'[i])
                /\ i > Len(store) => UserOf(store'[i].sender_id) = u
                /\ (i <= Len(store) /\ store'[i] # store[i])
                      => UserOf(store[i].recipient_id) = u
                /\ (i <= Len(store) /\ ~Participant(u, store[i]))
                      => store'[i] = store[i]
      ]_vars

\* the recipient of a row between p1 and p2 has marked it read, and a select
\* of the third account was given its own row and nothing else
C19_Witness ==
    /\ Len(store) = 2
    /\ store[1].sender_id = "p1"
    /\ store[1].recipient_id = "p2"
    /\ store[1].read_at # NULL
    /\ store[2].sender_id = "p3"
    /\ seen = [by |-> "u3", rows |-> {2}]

(***************************************************************************)
(* C20: no redirect while in password-recovery mode                        *)
(***************************************************************************)
\* this step calls navigate("/")
Navigates == ~navigated /\ navigated'

\* updateUser has succeeded
PasswordUpdated == authReq = [kind |-> "updateUser", phase |-> "ok"]

\* in reset mode nothing navigates before the password is updated
ResetHolds == (mode = "reset" /\ Navigates) => PasswordUpdated

\* outside reset mode a notification (other than PASSWORD_RECOVERY) or a
\* getSession result that carries a session navigates
ElseRedirects ==
    /\ ( /\ mode # "reset"
         /\ OnAuthStateChange
         /\ Head(authEvents).event # "PASSWORD_RECOVERY"
         /\ Head(authEvents).session ) => navigated'
    /\ \A c \in sessionChecks :
          (mode # "reset" /\ session /\ SessionResolve(c)) => navigated'

\* C20 (as stated): from the delivery of PASSWORD_RECOVERY on, while the
\* mode is reset, no step calls navigate("/") unless the password has been
\* updated (leaving reset mode by 'Back to login' ends the obligation); and
\* outside reset mode every notification and every getSession result that
\* carries a session navigates to "/".
C20_AsStated == [][ResetHolds /\ ElseRedirects]_vars


(***************************************************************************)
(* C21: the mode transitions of Auth                                       *)
(***************************************************************************)
\* the mode changes the three buttons make
ButtonTransitions ==
    { <<"login", "signup">>, <<"signup", "login">>, <<"login", "forgot">>,
      <<"forgot", "login">>, <<"reset", "login">> }

\* this step is a click on one of the mode buttons
ButtonStep == ToggleSignup \/ ForgotPassword \/ BackToLogin

\* this step delivers a PASSWORD_RECOVERY notification
RecoveryStep ==
    /\ authEvents # <<>>
    /\ Head(authEvents).event = "PASSWORD_RECOVERY"
    /\ OnAuthStateChange

\* this step is handleSubmit going on after a successful updateUser
UpdatedStep ==
    /\ authReq = [kind |-> "updateUser", phase |-> "ok"]
    /\ AuthReturn

\* a submit that validation rejects, or the handling of a failed request,
\* leaves the mode alone
SubmitKeepsMode ==
    /\ AuthSubmit => mode' = mode
    /\ (authReq.phase = "error" /\ AuthReturn) => mode' = mode

\* C21 (as stated): the mode is one of the four, and it changes only by a
\* button (login<->signup, login->forgot, forgot->login, reset->login), to
\* reset on PASSWORD_RECOVERY, or from reset to login after a successful
\* password update.
C21_AsStated ==
    [][ /\ mode' \in AuthModes
        /\ mode' # mode =>
              \/ ButtonStep /\ <<mode, mode'>> \in ButtonTransitions
              \/ RecoveryStep /\ mode' = "reset"
              \/ UpdatedStep /\ mode = "reset" /\ mode' = "login"
        /\ SubmitKeepsMode
      ]_vars

\* C21 (amended): as above, but the successful password update sets the
\* mode to login from whatever mode the buttons have reached while the
\* updateUser request was in flight.
C21_ModeTransitions ==
    [][ /\ mode' \in AuthModes
        /\ mode' # mode =>
              \/ ButtonStep /\ <<mode, mode'>> \in ButtonTransitions
              \/ RecoveryStep /\ mode' = "reset"
              \/ UpdatedStep /\ mode' = "login"
        /\ SubmitKeepsMode
      ]_vars

\* updateUser has succeeded while the user had gone back to login and on to
\* 'Forgot your password?'
C21_Witness ==
    /\ mode = "forgot"
    /\ authReq = [kind |-> "updateUser", phase |-> "ok"]
    /\ ~navigated

(***************************************************************************)
(* C22: validation errors are rejected before any backend request          *)
(***************************************************************************)
\* a blank alias at the shared-code gate
GateRejects ==
    (HandleSubmit /\ ~HasNonSpace(name)) =>
        /\ error' # ERR_NONE
        /\ ~isAuthenticated'
        /\ userName' = userName

\* a blank username in signup, or mismatched or short passwords in reset
AuthRejects ==
    ( /\ AuthSubmit
      /\ \/ mode = "signup" /\ ~HasNonSpace(username)
         \/ mode = "reset" /\ password # confirmPassword
         \/ mode = "reset" /\ Len(password) < MIN_PASSWORD_LENGTH ) =>
        /\ authToast' \in {AUTH_TOAST.username, AUTH_TOAST.mismatch,
                           AUTH_TOAST.short}
        /\ authReq' = NoRequest
        /\ ~authLoading'

\* a file that is no image in the image picker
PickerRejects ==
    ChooseImage(FALSE) =>
        /\ toast' = TOAST_INVALID
        /\ UNCHANGED <<job, insert, store, bucket>>
        /\ ~isLoading'

\* C22 (as stated): each of the four validation errors shows an error
\* notification, sends no backend request and grants no access, and leaves
\* loading / isLoading false.
C22_AsStated == [][GateRejects /\ AuthRejects /\ PickerRejects]_vars

(***************************************************************************)
(* C23: the ids of the local list are distinct                             *)
(***************************************************************************)
\* C23 (as stated): no message id appears twice in the local list, for every
\* interleaving of the history response and the INSERT events of the
\* subscription, a row that is both in the history and delivered as an
\* event included.
C23_AsStated ==
    \A i, j \in 1..Len(messages) :
        messages[i].id = messages[j].id => i = j

(***************************************************************************)
(* C24: a row appended by an INSERT event stays in the list                *)
(***************************************************************************)
\* C24 (as stated): a message that the INSERT handler appended is in the
\* local list for as long as the same peer stays selected; a history
\* response applied after the event does not drop it.
C24_AsStated ==
    \A i \in 1..Len(store) :
        <<"appended", i>> \in observed =>
            \E k \in 1..Len(messages) : messages[k].id = i

(***************************************************************************)
(* C25: the list after a switch of peer                                    *)
(***************************************************************************)
\* the history response of the selected peer has been applied: its select
\* is no longer in flight and no request of the view has failed
HistoryApplied ==
    /\ selectedRecipient # NoOne
    /\ failures = 0
    /\ \A f \in fetches : f.peer # selectedRecipient

\* C25 (as stated): once the history response of the selected peer B has
\* been applied, the local list holds only messages of the pair (caller, B);
\* a response for the peer selected before, still in flight at the switch,
\* is not applied on top of it.
C25_AsStated ==
    HistoryApplied =>
        \A k \in 1..Len(messages) : PairFilter(messages[k], Me, selectedRecipient)

(***************************************************************************)
(* C26: isLoading covers every send in flight                              *)
(***************************************************************************)
\* a text insert, or the upload or insert of an attachment, is before the
\* backend
SendInFlight ==
    \/ insert.phase = "sent"
    \/ \E k \in Kinds : job[k].phase \in {"uploading", "inserting"}

\* C26 (as stated): isLoading is true in every state in which a text insert,
\* an image upload or insert, or a voice upload or insert is in flight; an
\* image send that overlaps a voice send does not clear it early.
C26_AsStated == SendInFlight => isLoading

(***************************************************************************)
(* C27: the typing indicator belongs to the selected peer                  *)
(***************************************************************************)
\* C27 (as stated): the indicator is on only while a typing broadcast of the
\* selected peer was accepted within the last 2 s, and once another peer is
\* selected the indicator raised by the peer selected before is not
\* displayed.
C27_AsStated ==
    [][ /\ isRecipientTyping' =>
              /\ lastTypingAt' # NO_TIMER
              /\ now' - lastTypingAt' <= TYPING_DECAY_MS
        /\ typingPeer' # typingPeer => ~isRecipientTyping' ]_vars

(***************************************************************************)
(* C28: the read_at updates of the view                                    *)
(***************************************************************************)
\* the rows that the filters of update request r select, before any policy:
\* .eq('sender_id', ...).eq('recipient_id', ...).is('read_at', null) of
\* markMessagesAsRead, .eq('id', messageId) of markMessageAsRead
Addressed(r, table) ==
    {i \in 1..Len(table) :
        IF r.kind = "bulk"
        THEN /\ table[i].sender_id = r.sender
             /\ table[i].recipient_id = r.by
             /\ table[i].read_at = NULL
        ELSE table[i].id = r.id}

\* C28: every read_at update the view issues selects only rows addressed to
\* the caller's profile by the peer selected when it is issued: the bulk
\* update by its two filters, the single update because the INSERT handler
\* asks for it only for a row of that pair sent by the peer.
C28_MarkOwnInbox ==
    [][ \A r \in marks' \ marks :
            /\ r.by = Me
            /\ selectedRecipient' # NoOne
            /\ r.kind = "bulk" => r.sender = selectedRecipient'
            /\ r.kind = "single" => Addressed(r, store') # {}
            /\ \A i \in Addressed(r, store') :
                  /\ store'[i].recipient_id = Me
                  /\ store'[i].sender_id = selectedRecipient' ]_vars

\* after a switch of peer the INSERT handler has asked for the update of a
\* row the newly selected peer sent, while the caller has a row of its own
\* or of the other peer in the table
C28_Witness ==
    /\ selects = 2
    /\ \E r \in marks :
          /\ r.kind = "single"
          /\ store[r.id].sender_id = selectedRecipient
          /\ store[r.id].recipient_id = Me

(***************************************************************************)
(* C29: who a sent message is from and to                                  *)
(***************************************************************************)
\* the sends of the view that are under way, each with the profile and the
\* peer its handler closed over
Sends ==
    [k \in Kinds \cup {"text"} |->
        IF k = "text"
        THEN IF insert.phase = "idle" THEN IdleJob
             ELSE [IdleJob EXCEPT !.phase = insert.phase, !.profile = Me,
                                  !.recipient = insert.recipient]
        ELSE [job[k] EXCEPT !.url = NULL]]

\* C29: a send takes the caller's profile and the selected peer when the
\* user initiates it (submit, file chosen, recording started) and keeps
\* them until it ends, whatever is selected meanwhile; the row its insert
\* stores has sender_id and sender_name of the caller and that peer as
\* recipient_id.
C29_SendAddressing ==
    [][ \A k \in Kinds \cup {"text"} :
          /\ (Sends[k].phase = "idle" /\ Sends'[k].phase # "idle") =>
                /\ Sends'[k].profile = currentProfile
                /\ Sends'[k].recipient = selectedRecipient
          /\ (Sends[k].phase # "idle" /\ Sends'[k].phase # "idle") =>
                /\ Sends'[k].profile = Sends[k].profile
                /\ Sends'[k].recipient = Sends[k].recipient
          /\ ( /\ Sends[k].phase \in {"sent", "inserting"}
               /\ Sends'[k].phase \in {"ok", "insertOk"} ) =>
                /\ Len(store') = Len(store) + 1
                /\ store'[Len(store')].sender_id = currentProfile
                /\ store'[Len(store')].sender_name = Username(currentProfile)
                /\ store'[Len(store')].recipient_id = Sends[k].recipient
                /\ currentProfile = Me ]_vars

\* a voice message recorded for one peer was stored for that peer after the
\* user had selected another one
C29_Witness ==
    /\ selectedRecipient # NoOne
    /\ \E i \in 1..Len(store) :
          /\ store[i].sender_id = Me
          /\ store[i].voice_url # NULL
          /\ store[i].recipient_id # selectedRecipient

(***************************************************************************)
(* C30: Index shows the chat view exactly with an alias                    *)
(***************************************************************************)
\* a non-empty string without white space at either end
TrimmedAlias(s) == s # <<>> /\ ~IsSpace(s[1]) /\ ~IsSpace(s[Len(s)])

\* C30: in Index, isAuthenticated is true exactly when userName is a
\* non-empty trimmed alias, before and after every submission and logout; a
\* logout clears the alias, and the chat view comes back only through a
\* submission that is granted.
C30_AuthenticatedIffAlias ==
    [][ /\ isAuthenticated <=> TrimmedAlias(userName)
        /\ isAuthenticated' <=> TrimmedAlias(userName')
        /\ (isAuthenticated /\ ~isAuthenticated') => userName' = <<>>
        /\ (~isAuthenticated /\ isAuthenticated') =>
              /\ HasNonSpace(name)
              /\ CodeAccepted(code)
              /\ userName' = Trim(name) ]_vars

\* an alias typed with white space after it has been accepted: the chat view
\* is shown with the alias trimmed
C30_Witness ==
    /\ isAuthenticated
    /\ name = <<"A", " ">>
    /\ userName = <<"A">>
=============================================================================
